---- MODULE Spec2Model ----
(***************************************************************************)
(* Model of the fund-RAG orchestration shell: the /api/chat handler        *)
(* (api_server.py), UnifiedRetriever.answer and its six execution          *)
(* strategies (unified_retriever.py), the PII gate (pii_filter.py) and the *)
(* query router (query_router.py).  One request is followed from the       *)
(* handler to its response; every collaborator (PII service, language      *)
(* model, embedding service, record store, search indexes) answers         *)
(* nondeterministically with one of the outcomes the code distinguishes.   *)
(***************************************************************************)
EXTENDS Naturals, Sequences, FiniteSets, Bags, TLC

VARIABLES
    has_raptor,       \* UnifiedRetriever.has_raptor
    message,          \* the request's message: the keyword classes it contains
    use_llm_routing,  \* the request's use_llm_routing flag
    mode,             \* "none" | "sync" | "stream": how chat() answers
    pc,               \* position of the thread that runs retriever.answer
    pii_result,       \* answer()'s local pii_result (PiiCheckResult)
    route_result,     \* answer()'s local route_result (the routing decision)
    strategy,         \* the execute_*_route being run, its arguments, and whether CHAIN fell back
    loc,              \* the strategy's locals: per-source results, citations, embedding, criteria
    futures,          \* the fan-out's futures: branch -> state and outcome
    result,           \* the RetrievalResult (or the exception) answer() ends with
    calls,            \* the bag of calls made so far to the classifier and the collaborators
    inflight,         \* the collaborator call the CHAIN strategy is blocked in ("none" if none)
    progress_queue,   \* chat()'s progress_queue
    stream,           \* the events generate_chain_response has yielded
    genPc,            \* position of generate_chain_response
    http,             \* the synchronous response of chat(): "none" | "200" | "500"
    question,         \* the text quick_route scans, character by character
    llm_reply,        \* route(): the completion the routing call returned
    completed,        \* the fan-out branches in the order their futures completed
    pii_response,     \* PiiFilter.check, followed step by step: the outcome of its POST
    peer              \* a second request in flight on another thread: all of its state

vars == <<has_raptor, message, use_llm_routing, mode, pc, pii_result,
          route_result, strategy, loc, futures, result, calls, inflight,
          progress_queue, stream, genPc, http, question, llm_reply, completed,
          pii_response, peer>>

\* ---------------------------------------------------------------- bounds

\* Most rows the record store returns to one query (more than any citation cap).
MaxRows == 11
\* Most documents of a search index that match one query (more than any top).
MaxDocs == 6
\* Most entities the PII service reports for one text.
MaxEntities == 3
MaxResponse == 3
\* Longest text PiiFilter.check is followed on.
MaxText == 2
MaxScore == 3

\* ---------------------------------------------------------------- helpers

Take(s, n) == SubSeq(s, 1, IF Len(s) < n THEN Len(s) ELSE n)

None == "None"

\* The user's question as passed to the collaborators; augmentations are appended parts.
Query == <<"query">>

\* ---------------------------------------------------------------- query_router.py

KeywordClasses == {"raptor", "fund", "cond", "sql", "semantic", "generic"}

\* The messages followed: one for each route quick_route can give.
Messages ==
    { {"raptor", "fund", "cond"}, {"raptor", "fund"}, {"raptor"}, {"sql"}, {"semantic"} }

\* Mutant: the similarity keywords are tested before the structured-data keywords.
quick_route_semantic_first(m) ==
    IF "raptor" \in m
    THEN IF "fund" \in m
         THEN IF "cond" \in m THEN "CHAIN" ELSE "HYBRID"
         ELSE "RAPTOR"
    ELSE IF "semantic" \in m THEN "SEMANTIC"
    ELSE IF "sql" \in m THEN "SQL"
    ELSE IF "generic" \in m THEN "SQL"
    ELSE "HYBRID"

quick_route(m) ==
    IF "raptor" \in m
    THEN IF "fund" \in m
         THEN IF "cond" \in m THEN "CHAIN" ELSE "HYBRID"
         ELSE "RAPTOR"
    ELSE IF "sql" \in m THEN "SQL"
    ELSE IF "semantic" \in m THEN "SEMANTIC"
    ELSE IF "generic" \in m THEN "SQL"
    ELSE "HYBRID"

\* ---- quick_route on the text of a question: a question is its sequence of characters

UpperCase == << "A", "B", "C", "D", "E", "F", "G", "H", "I", "J", "K", "L", "M", "N", "O", "P",
    "Q", "R", "S", "T", "U", "V", "W", "X", "Y", "Z" >>
LowerCase == << "a", "b", "c", "d", "e", "f", "g", "h", "i", "j", "k", "l", "m", "n", "o", "p",
    "q", "r", "s", "t", "u", "v", "w", "x", "y", "z" >>

\* str.lower()
lower(text) ==
    [ i \in 1..Len(text) |->
        IF \E k \in 1..Len(UpperCase) : UpperCase[k] = text[i]
        THEN LowerCase[CHOOSE k \in 1..Len(UpperCase) : UpperCase[k] = text[i]]
        ELSE text[i] ]

\* kw in query_lower: kw occurs in the text as a substring.
occurs_in(kw, text) ==
    \E i \in 1..(Len(text) + 1 - Len(kw)) : SubSeq(text, i, i + Len(kw) - 1) = kw

raptor_keywords ==
    { <<"i", "m", "f">>,
      <<"i", "n", "f", "l", "a", "t", "i", "o", "n">>,
      <<"e", "c", "o", "n", "o", "m", "i", "c", " ", "o", "u", "t", "l", "o", "o", "k">>,
      <<"i", "n", "t", "e", "r", "e", "s", "t", " ", "r", "a", "t", "e", " ", "f", "o", "r", "e", "c",
          "a", "s", "t">>,
      <<"g", "d", "p">>,
      <<"g", "r", "o", "w", "t", "h", " ", "f", "o", "r", "e", "c", "a", "s", "t">>,
      <<"m", "o", "n", "e", "t", "a", "r", "y", " ", "p", "o", "l", "i", "c", "y">>,
      <<"f", "e", "d">>,
      <<"c", "e", "n", "t", "r", "a", "l", " ", "b", "a", "n", "k">>,
      <<"r", "e", "c", "e", "s", "s", "i", "o", "n">>,
      <<"e", "m", "e", "r", "g", "i", "n", "g", " ", "m", "a", "r", "k", "e", "t", " ", "o", "u", "t",
          "l", "o", "o", "k">>,
      <<"w", "o", "r", "l", "d", " ", "e", "c", "o", "n", "o", "m", "i", "c">> }

fund_keywords ==
    { <<"f", "u", "n", "d">>,
      <<"i", "n", "v", "e", "s", "t">>,
      <<"p", "o", "r", "t", "f", "o", "l", "i", "o">>,
      <<"p", "o", "s", "i", "t", "i", "o", "n">>,
      <<"b", "e", "s", "t">>,
      <<"r", "e", "c", "o", "m", "m", "e", "n", "d">> }

cond_keywords ==
    { <<"i", "f">>,
      <<"g", "i", "v", "e", "n">>,
      <<"b", "a", "s", "e", "d", " ", "o", "n">>,
      <<"c", "o", "n", "s", "i", "d", "e", "r", "i", "n", "g">> }

sql_keywords ==
    { <<"t", "o", "p">>,
      <<"l", "a", "r", "g", "e", "s", "t">>,
      <<"s", "m", "a", "l", "l", "e", "s", "t">>,
      <<"c", "o", "m", "p", "a", "r", "e">>,
      <<"l", "i", "s", "t">>,
      <<"s", "h", "o", "w", " ", "m", "e">>,
      <<"w", "h", "i", "c", "h", " ", "f", "u", "n", "d", "s", " ", "h", "o", "l", "d">>,
      <<"c", "u", "s", "i", "p">>,
      <<"i", "s", "i", "n">>,
      <<"t", "i", "c", "k", "e", "r">>,
      <<"h", "o", "w", " ", "m", "a", "n", "y">>,
      <<"t", "o", "t", "a", "l">>,
      <<"s", "u", "m">>,
      <<"a", "v", "e", "r", "a", "g", "e">>,
      <<"c", "o", "u", "n", "t">>,
      <<"g", "r", "e", "a", "t", "e", "r", " ", "t", "h", "a", "n">>,
      <<"l", "e", "s", "s", " ", "t", "h", "a", "n">>,
      <<"b", "e", "t", "w", "e", "e", "n">>,
      <<"d", "v", "0", "1">>,
      <<"i", "n", "t", "e", "r", "e", "s", "t", " ", "r", "a", "t", "e", " ", "r", "i", "s", "k">>,
      <<"m", "a", "t", "u", "r", "i", "t", "y">>,
      <<"h", "o", "l", "d", "i", "n", "g", "s", " ", "o", "f">> }

semantic_keywords ==
    { <<"s", "i", "m", "i", "l", "a", "r", " ", "t", "o">>,
      <<"l", "i", "k", "e">>,
      <<"r", "e", "s", "e", "m", "b", "l", "e">>,
      <<"s", "t", "y", "l", "e">>,
      <<"c", "o", "n", "s", "e", "r", "v", "a", "t", "i", "v", "e">>,
      <<"a", "g", "g", "r", "e", "s", "s", "i", "v", "e">>,
      <<"g", "r", "o", "w", "t", "h", "-", "o", "r", "i", "e", "n", "t", "e", "d">>,
      <<"i", "n", "c", "o", "m", "e", "-", "f", "o", "c", "u", "s", "e", "d">>,
      <<"t", "e", "l", "l", " ", "m", "e", " ", "a", "b", "o", "u", "t">>,
      <<"d", "e", "s", "c", "r", "i", "b", "e">>,
      <<"w", "h", "a", "t", " ", "k", "i", "n", "d", " ", "o", "f">> }

generic_keywords ==
    { <<"f", "u", "n", "d">>,
      <<"e", "t", "f">>,
      <<"b", "o", "n", "d">>,
      <<"e", "q", "u", "i", "t", "y">>,
      <<"s", "t", "o", "c", "k">> }

keywords(c) ==
    CASE c = "raptor" -> raptor_keywords
      [] c = "fund" -> fund_keywords
      [] c = "cond" -> cond_keywords
      [] c = "sql" -> sql_keywords
      [] c = "semantic" -> semantic_keywords
      [] OTHER -> generic_keywords

\* The any(kw in query_lower for kw in ...) tests of quick_route: the keyword classes of
\* which a keyword occurs in the lowercased text.
keyword_classes(query_lower) ==
    { c \in KeywordClasses : \E kw \in keywords(c) : occurs_in(kw, query_lower) }

\* quick_route(query) on the text of the question.
quick_route_of(query) == quick_route(keyword_classes(lower(query)))

\* test_queries: the (question, expected route) pairs of the router's self-test.
test_queries ==
    << << << "T", "o", "p", " ", "5", " ", "l", "a", "r", "g", "e", "s", "t", " ", "b", "o", "n", "d",
            " ", "f", "u", "n", "d", "s">>,
          "SQL" >>,
       << << "F", "u", "n", "d", "s", " ", "s", "i", "m", "i", "l", "a", "r", " ", "t", "o", " ", "V",
            "a", "n", "g", "u", "a", "r", "d", " ", "5", "0", "0">>,
          "SEMANTIC" >>,
       << << "W", "h", "a", "t", " ", "i", "s", " ", "I", "M", "F", "'", "s", " ", "i", "n", "f", "l",
            "a", "t", "i", "o", "n", " ", "o", "u", "t", "l", "o", "o", "k", "?">>,
          "RAPTOR" >>,
       << << "B", "e", "s", "t", " ", "b", "o", "n", "d", " ", "f", "u", "n", "d", "s", " ", "g", "i",
            "v", "e", "n", " ", "c", "u", "r", "r", "e", "n", "t", " ", "r", "a", "t", "e", " ",
            "e", "n", "v", "i", "r", "o", "n", "m", "e", "n", "t">>,
          "HYBRID" >>,
       << << "H", "o", "w", " ", "s", "h", "o", "u", "l", "d", " ", "I", " ", "p", "o", "s", "i", "t",
            "i", "o", "n", " ", "m", "y", " ", "p", "o", "r", "t", "f", "o", "l", "i", "o", " ",
            "f", "o", "r", " ", "I", "M", "F", "'", "s", " ", "g", "r", "o", "w", "t", "h", " ",
            "f", "o", "r", "e", "c", "a", "s", "t", "?">>,
          "CHAIN" >>,
       << << "W", "h", "i", "c", "h", " ", "f", "u", "n", "d", "s", " ", "h", "o", "l", "d", " ", "A",
            "p", "p", "l", "e", " ", "s", "t", "o", "c", "k", "?">>,
          "SQL" >>,
       << << "C", "o", "n", "s", "e", "r", "v", "a", "t", "i", "v", "e", " ", "i", "n", "c", "o", "m",
            "e", "-", "f", "o", "c", "u", "s", "e", "d", " ", "f", "u", "n", "d", "s">>,
          "SEMANTIC" >>,
       << << "C", "o", "m", "p", "a", "r", "e", " ", "V", "a", "n", "g", "u", "a", "r", "d", " ", "T",
            "o", "t", "a", "l", " ", "B", "o", "n", "d", " ", "v", "s", " ", "P", "I", "M", "C",
            "O", " ", "I", "n", "c", "o", "m", "e">>,
          "SQL" >> >>

\* The words a composed question names a keyword class with: one keyword of the class.
class_word(c) ==
    CASE c = "raptor" -> <<"i", "m", "f">>
      [] c = "fund" -> <<"i", "n", "v", "e", "s", "t">>
      [] c = "cond" -> <<"g", "i", "v", "e", "n">>
      [] c = "sql" -> <<"t", "o", "p">>
      [] c = "semantic" -> <<"s", "t", "y", "l", "e">>
      [] OTHER -> <<"e", "t", "f">>

\* A question made of one keyword of each class of S, the classes of the later rules first.
composed(S) ==
    LET word(c) == IF c \in S THEN class_word(c) \o <<" ">> ELSE <<>>
    IN  word("generic") \o word("semantic") \o word("sql") \o word("cond")
        \o word("fund") \o word("raptor")

\* The example questions of the specification, with the route it documents for each.
SpecFixtures ==
    << << << "T", "o", "p", " ", "5", " ", "l", "a", "r", "g", "e", "s", "t", " ", "b", "o", "n", "d",
            " ", "f", "u", "n", "d", "s">>,
          "SQL" >>,
       << << "F", "u", "n", "d", "s", " ", "s", "i", "m", "i", "l", "a", "r", " ", "t", "o", " ", "V",
            "a", "n", "g", "u", "a", "r", "d", " ", "5", "0", "0">>,
          "SEMANTIC" >>,
       << << "W", "h", "a", "t", " ", "i", "s", " ", "t", "h", "e", " ", "i", "n", "f", "l", "a", "t",
            "i", "o", "n", " ", "o", "u", "t", "l", "o", "o", "k", "?">>,
          "RAPTOR" >>,
       << << "B", "e", "s", "t", " ", "b", "o", "n", "d", " ", "f", "u", "n", "d", "s", " ", "g", "i",
            "v", "e", "n", " ", "c", "u", "r", "r", "e", "n", "t", " ", "r", "a", "t", "e", " ",
            "e", "n", "v", "i", "r", "o", "n", "m", "e", "n", "t">>,
          "HYBRID" >>,
       << << "H", "o", "w", " ", "s", "h", "o", "u", "l", "d", " ", "I", " ", "p", "o", "s", "i", "t",
            "i", "o", "n", " ", "m", "y", " ", "p", "o", "r", "t", "f", "o", "l", "i", "o", " ",
            "i", "f", " ", "i", "n", "f", "l", "a", "t", "i", "o", "n", " ", "r", "i", "s", "e",
            "s", "?">>,
          "CHAIN" >> >>

\* The questions quick_route is followed on: the self-test's, the documented examples,
\* and one for every combination of keyword classes.
Questions ==
    { test_queries[i][1] : i \in 1..Len(test_queries) }
    \cup { SpecFixtures[i][1] : i \in 1..Len(SpecFixtures) }
    \cup { composed(S) : S \in SUBSET KeywordClasses }

RouteLabels == {"SQL", "SEMANTIC", "RAPTOR", "SEMANTIC_RAPTOR", "HYBRID", "CHAIN"}

\* What the language model can answer to the routing prompt: the call raises, the
\* content is not JSON, or a JSON object with any of the four fields present or not.
LlmRouteReplies ==
    { [kind |-> k, route |-> None, reasoning |-> None, sql_hint |-> None,
       raptor_topics |-> None] : k \in {"raise", "unparseable"} }
    \cup
    { [kind |-> "json", route |-> r, reasoning |-> g, sql_hint |-> h, raptor_topics |-> t] :
        r \in RouteLabels \cup {None, "OTHER"},
        g \in {None, "llm reasoning"},
        h \in {None, "hint"},
        t \in {None, "topics"} }

\* No completion yet.
NoReply == [kind |-> "none", route |-> None, reasoning |-> None, sql_hint |-> None,
            raptor_topics |-> None]

\* Mutant: the parsed reply is returned as it is, without the defaults.
route_without_defaults(reply) ==
    [ route         |-> reply.route,
      reasoning     |-> reply.reasoning,
      sql_hint      |-> reply.sql_hint,
      raptor_topics |-> reply.raptor_topics ]

\* QueryRouter.route, after the completion returned a JSON object.
route(reply) ==
    [ route         |-> IF reply.route = None THEN "HYBRID" ELSE reply.route,
      reasoning     |-> IF reply.reasoning = None THEN "Default routing" ELSE reply.reasoning,
      sql_hint      |-> reply.sql_hint,
      raptor_topics |-> reply.raptor_topics ]

\* ---------------------------------------------------------------- pii_filter.py

BANKING_PII_CATEGORIES ==
    { "Person", "PersonType", "PhoneNumber", "Email", "Address", "USBankAccountNumber",
      "CreditCardNumber", "USSocialSecurityNumber", "USDriversLicenseNumber",
      "USPassportNumber", "USIndividualTaxpayerIdentification",
      "InternationalBankingAccountNumber", "SWIFTCode", "IPAddress" }

\* Confidence scores are percentages: 80 is the default threshold 0.8.
confidence_threshold == 80

\* Entities the service may report: three banking categories and one that is not,
\* each below, at and above the threshold.
ServiceEntities ==
    { [category |-> c, confidenceScore |-> s] :
        c \in {"Email", "USBankAccountNumber", "Person", "Organization"},
        s \in {79, 80, 95} }

\* Outcomes of the POST to the PII service.
PiiResponses ==
    { [kind |-> k, entities |-> {}] :
        k \in {"timeout", "connection_error", "exception", "not_ok", "bad_kind",
               "no_documents"} }
    \cup
    { [kind |-> "ok", entities |-> E] :
        E \in {S \in SUBSET ServiceEntities : Cardinality(S) <= MaxEntities} }

NoPii == [has_pii |-> FALSE, entities |-> {}, error |-> None]

\* No POST was made (or its outcome is out of scope again: it is a local of check).
NoResponse == [kind |-> "none", entities |-> {}]

\* Mutant: the categories are not filtered.
check_any_category(resp) ==
    CASE resp.kind = "not_ok"           -> [NoPii EXCEPT !.error = "PII check failed"]
      [] resp.kind = "bad_kind"         -> [NoPii EXCEPT !.error = "Unexpected response format"]
      [] resp.kind = "no_documents"     -> NoPii
      [] resp.kind = "timeout"          -> [NoPii EXCEPT !.error = "PII check timed out"]
      [] resp.kind = "connection_error" -> [NoPii EXCEPT !.error = "PII service unavailable"]
      [] resp.kind = "exception"        -> [NoPii EXCEPT !.error = "exception"]
      [] OTHER ->
            LET entities == { e \in resp.entities :
                                e.confidenceScore >= confidence_threshold }
            IN  [has_pii |-> entities # {}, entities |-> entities, error |-> None]

\* Mutant: a timed-out service call fails closed.
check_fail_closed(resp) ==
    CASE resp.kind = "not_ok"           -> [NoPii EXCEPT !.error = "PII check failed"]
      [] resp.kind = "bad_kind"         -> [NoPii EXCEPT !.error = "Unexpected response format"]
      [] resp.kind = "no_documents"     -> NoPii
      [] resp.kind = "timeout"          -> [NoPii EXCEPT !.has_pii = TRUE,
                                                         !.error = "PII check timed out"]
      [] resp.kind = "connection_error" -> [NoPii EXCEPT !.error = "PII service unavailable"]
      [] resp.kind = "exception"        -> [NoPii EXCEPT !.error = "exception"]
      [] OTHER ->
            LET entities == { e \in resp.entities :
                                /\ e.confidenceScore >= confidence_threshold
                                /\ e.category \in BANKING_PII_CATEGORIES }
            IN  [has_pii |-> entities # {}, entities |-> entities, error |-> None]

\* PiiFilter.check on a non-blank text, given the service's outcome.
check(resp) ==
    CASE resp.kind = "not_ok"           -> [NoPii EXCEPT !.error = "PII check failed"]
      [] resp.kind = "bad_kind"         -> [NoPii EXCEPT !.error = "Unexpected response format"]
      [] resp.kind = "no_documents"     -> NoPii
      [] resp.kind = "timeout"          -> [NoPii EXCEPT !.error = "PII check timed out"]
      [] resp.kind = "connection_error" -> [NoPii EXCEPT !.error = "PII service unavailable"]
      [] resp.kind = "exception"        -> [NoPii EXCEPT !.error = "exception"]
      [] OTHER ->
            LET entities == { e \in resp.entities :
                                /\ e.confidenceScore >= confidence_threshold
                                /\ e.category \in BANKING_PII_CATEGORIES }
            IN  [has_pii |-> entities # {}, entities |-> entities, error |-> None]

\* The labels of format_warning; a category without one is named by its lowercased
\* name (of the categories the service reports here, that is Organization).
category_names(c) ==
    CASE c = "Person" -> "personal name"
      [] c = "PersonType" -> "personal"
      [] c = "PhoneNumber" -> "phone number"
      [] c = "Email" -> "email address"
      [] c = "Address" -> "address"
      [] c = "USBankAccountNumber" -> "bank account number"
      [] c = "CreditCardNumber" -> "credit card"
      [] c = "USSocialSecurityNumber" -> "Social Security Number"
      [] c = "USDriversLicenseNumber" -> "driver's license"
      [] c = "USPassportNumber" -> "passport number"
      [] c = "USIndividualTaxpayerIdentification" -> "tax ID"
      [] c = "InternationalBankingAccountNumber" -> "IBAN"
      [] c = "SWIFTCode" -> "SWIFT code"
      [] c = "IPAddress" -> "IP address"
      [] c = "Organization" -> "organization"

\* str.join
RECURSIVE join(_, _)
join(sep, l) ==
    IF l = <<>> THEN ""
    ELSE IF Len(l) = 1 THEN l[1]
    ELSE l[1] \o sep \o join(sep, Tail(l))

\* list(set(...)): the elements of a set, each once, in one of the orders the set's
\* iteration may have.
listings(S) ==
    { l \in [1..Cardinality(S) -> S] : \A i, j \in 1..Cardinality(S) : i # j => l[i] # l[j] }

\* The sentence format_warning builds from its list of labels.
warning_text(categories) ==
    IF categories = <<>>
    THEN "Your message contains sensitive information that cannot be processed."
    ELSE IF Len(categories) = 1
    THEN "Your message contains " \o categories[1]
            \o " information which cannot be processed for security reasons."
    ELSE LET last == categories[Len(categories)]
             rest == SubSeq(categories, 1, Len(categories) - 1)
         IN  "Your message contains " \o join(", ", rest) \o " and " \o last
                \o " information which cannot be processed for security reasons."

\* PiiFilter.format_warning: the warnings it may return for these entities, one for each
\* order in which the set of their labels may be listed.
format_warning(entities) ==
    { warning_text(categories) :
        categories \in listings({ category_names(e.category) : e \in entities }) }

\* ---------------------------------------------------------------- unified_retriever.py: data

\* Citation; score is the relevance score, 0 when none is given.
Citation(source_type, identifier, score) ==
    [source_type |-> source_type, identifier |-> identifier, score |-> score]

\* A row of the record store, and the error-annotated row query_sql returns.
Row(i) == [error |-> FALSE, id |-> i]
ErrorRow == [error |-> TRUE, id |-> 0]

\* A document of a search response, with its @search.score.
Doc(i, score) == [id |-> i, score |-> score]

\* A call as logged: the operation and the text it was given.
Call(op, arg) == [op |-> op, arg |-> arg]

\* The log after the calls of sequence cs were made.
RECURSIVE logged(_, _)
logged(log, cs) == IF cs = <<>> THEN log ELSE logged(log (+) SetToBag({Head(cs)}), Tail(cs))

\* RetrievalResult.  status is "none" until answer() ends, then "returned" or "raised"
\* (raised_by: the call whose exception left answer()).  sql_query = <<>> is None;
\* populated holds the optional fields the constructor was given.
NoResult ==
    [ status |-> "none", raised_by |-> None,
      answer |-> None, route |-> None, reasoning |-> None, citations |-> <<>>,
      sql_results |-> <<>>, semantic_results |-> <<>>, raptor_results |-> <<>>,
      sql_query |-> <<>>, populated |-> {}, pii_blocked |-> FALSE, pii_warning |-> None ]

Raised(op) == [NoResult EXCEPT !.status = "raised", !.raised_by = op]

\* Outcomes of the collaborators.
GenOutcomes == {"raise", "ok"}
EmbedOutcomes == {"raise", "ok"}
\* The record store fails or returns n rows; a search index fails or holds n matching
\* documents, of which the service returns the first top; scores lists the @search.score
\* of the matching documents in the order of the response, which the service ranks by
\* descending score.
RowCounts == {0, MaxRows}
DocCounts == {0, MaxDocs}
DbOutcomes == {[fail |-> TRUE, n |-> 0]} \cup {[fail |-> FALSE, n |-> k] : k \in RowCounts}
ranked(n) == [i \in 1..n |-> n + 1 - i]
SearchOutcomes ==
    {[fail |-> TRUE, scores |-> <<>>]}
    \cup {[fail |-> FALSE, scores |-> ranked(k)] : k \in DocCounts}
LlmOutcomes == {"raise", "ok"}

\* Citation caps.
SqlCitationCap == 10
HybridSqlCap == 5
HybridSemanticCap == 3
HybridRaptorCap == 2
SemRaptorSemanticCap == 4
SemRaptorRaptorCap == 3
ChainSqlCap == 5
ChainSemanticCap == 2

\* The top (number of documents asked of the search service) of each search.
SemanticTop == 5
RaptorTop == 3
HybridSemanticTop == 3
HybridRaptorTop == 2
SemRaptorSemanticTop == 5
SemRaptorRaptorTop == 3
ChainRaptorTop == 3
ChainSemanticTop == 3

\* Mutant: the search is made without top, and every matching document comes back.
search_without_top(srch, top) == [i \in 1..Len(srch.scores) |-> Doc(i, srch.scores[i])]

\* SearchClient.search(top=top): the first top of the matching documents.
search(srch, top) ==
    [i \in 1..(IF Len(srch.scores) < top THEN Len(srch.scores) ELSE top) |->
        Doc(i, srch.scores[i])]

\* What a query_* call gives back: status "ok" (returned) or "raise", and the calls it made.
QueryReturn(status, results, citations, sql_query, made) ==
    [ status |-> status, results |-> results, citations |-> citations,
      sql_query |-> sql_query, calls |-> made ]

\* Mutant: a citation for every row, without the [:10] slice.
query_sql_uncapped(query, sql_hint, gen, db) ==
    LET enhanced_query == IF sql_hint # None THEN query \o <<"Hint", sql_hint>> ELSE query
        sql == <<"SQL">> \o enhanced_query
        c_gen == Call("sql_generate", enhanced_query)
        c_db == Call("db_execute", sql)
        results == [i \in 1..db.n |-> Row(i)]
        citations == [i \in 1..Len(results) |-> Citation("SQL", results[i].id, 0)]
    IN  IF gen = "raise" THEN QueryReturn("raise", <<>>, <<>>, <<>>, <<c_gen>>)
        ELSE IF db.fail THEN QueryReturn("ok", <<ErrorRow>>, <<>>, sql, <<c_gen, c_db>>)
        ELSE QueryReturn("ok", results, citations, sql, <<c_gen, c_db>>)

\* Mutant: the error row of a failed execution is cited like a row.
query_sql_citing_error(query, sql_hint, gen, db) ==
    LET enhanced_query == IF sql_hint # None THEN query \o <<"Hint", sql_hint>> ELSE query
        sql == <<"SQL">> \o enhanced_query
        c_gen == Call("sql_generate", enhanced_query)
        c_db == Call("db_execute", sql)
        results == [i \in 1..db.n |-> Row(i)]
        citations == [i \in 1..Len(Take(results, SqlCitationCap)) |-> Citation("SQL", results[i].id, 0)]
    IN  IF gen = "raise" THEN QueryReturn("raise", <<>>, <<>>, <<>>, <<c_gen>>)
        ELSE IF db.fail
             THEN QueryReturn("ok", <<ErrorRow>>, <<Citation("SQL", ErrorRow.id, 0)>>, sql,
                              <<c_gen, c_db>>)
        ELSE QueryReturn("ok", results, citations, sql, <<c_gen, c_db>>)

\* Mutant: a failed execution raises out of query_sql.
query_sql_raising(query, sql_hint, gen, db) ==
    LET enhanced_query == IF sql_hint # None THEN query \o <<"Hint", sql_hint>> ELSE query
        sql == <<"SQL">> \o enhanced_query
        c_gen == Call("sql_generate", enhanced_query)
        c_db == Call("db_execute", sql)
        results == [i \in 1..db.n |-> Row(i)]
        citations == [i \in 1..Len(Take(results, SqlCitationCap)) |-> Citation("SQL", results[i].id, 0)]
    IN  IF gen = "raise" THEN QueryReturn("raise", <<>>, <<>>, <<>>, <<c_gen>>)
        ELSE IF db.fail THEN QueryReturn("raise", <<>>, <<>>, <<>>, <<c_gen, c_db>>)
        ELSE QueryReturn("ok", results, citations, sql, <<c_gen, c_db>>)

\* UnifiedRetriever.query_sql
query_sql(query, sql_hint, gen, db) ==
    LET enhanced_query == IF sql_hint # None THEN query \o <<"Hint", sql_hint>> ELSE query
        sql == <<"SQL">> \o enhanced_query
        c_gen == Call("sql_generate", enhanced_query)
        c_db == Call("db_execute", sql)
        results == [i \in 1..db.n |-> Row(i)]
        citations == [i \in 1..Len(Take(results, SqlCitationCap)) |-> Citation("SQL", results[i].id, 0)]
    IN  IF gen = "raise" THEN QueryReturn("raise", <<>>, <<>>, <<>>, <<c_gen>>)
        ELSE IF db.fail THEN QueryReturn("ok", <<ErrorRow>>, <<>>, sql, <<c_gen, c_db>>)
        ELSE QueryReturn("ok", results, citations, sql, <<c_gen, c_db>>)

\* UnifiedRetriever.query_semantic; embedding is None or the precomputed vector.
query_semantic(query, top, embedding, emb, srch) ==
    LET c_emb == IF embedding = None THEN <<Call("embed", query)>> ELSE <<>>
        c_srch == Call("semantic_search", query)
        results == search(srch, top)
        citations == [i \in 1..Len(results) |-> Citation("SEMANTIC", results[i].id, results[i].score)]
    IN  IF embedding = None /\ emb = "raise" THEN QueryReturn("raise", <<>>, <<>>, <<>>, c_emb)
        ELSE IF srch.fail THEN QueryReturn("raise", <<>>, <<>>, <<>>, c_emb \o <<c_srch>>)
        ELSE QueryReturn("ok", results, citations, <<>>, c_emb \o <<c_srch>>)

\* Mutant: query_raptor without its try/except.
query_raptor_unguarded(available, query, topics, top, embedding, emb, srch) ==
    LET search_query == IF topics # None THEN query \o <<topics>> ELSE query
        c_emb == IF embedding = None THEN <<Call("embed", search_query)>> ELSE <<>>
        c_srch == Call("raptor_search", search_query)
        results == search(srch, top)
        citations == [i \in 1..Len(results) |-> Citation("RAPTOR", results[i].id, results[i].score)]
    IN  IF ~available THEN QueryReturn("ok", <<>>, <<>>, <<>>, <<>>)
        ELSE IF embedding = None /\ emb = "raise" THEN QueryReturn("raise", <<>>, <<>>, <<>>, c_emb)
        ELSE IF srch.fail THEN QueryReturn("raise", <<>>, <<>>, <<>>, c_emb \o <<c_srch>>)
        ELSE QueryReturn("ok", results, citations, <<>>, c_emb \o <<c_srch>>)

\* UnifiedRetriever.query_raptor
query_raptor(available, query, topics, top, embedding, emb, srch) ==
    LET search_query == IF topics # None THEN query \o <<topics>> ELSE query
        c_emb == IF embedding = None THEN <<Call("embed", search_query)>> ELSE <<>>
        c_srch == Call("raptor_search", search_query)
        results == search(srch, top)
        citations == [i \in 1..Len(results) |-> Citation("RAPTOR", results[i].id, results[i].score)]
    IN  IF ~available THEN QueryReturn("ok", <<>>, <<>>, <<>>, <<>>)
        ELSE IF embedding = None /\ emb = "raise" THEN QueryReturn("ok", <<>>, <<>>, <<>>, c_emb)
        ELSE IF srch.fail THEN QueryReturn("ok", <<>>, <<>>, <<>>, c_emb \o <<c_srch>>)
        ELSE QueryReturn("ok", results, citations, <<>>, c_emb \o <<c_srch>>)

\* The strategy being run: its name, the arguments answer() or the CHAIN fallback gave it.
Strategy(name, sql_hint, raptor_topics, fallback) ==
    [ name |-> name, sql_hint |-> sql_hint, raptor_topics |-> raptor_topics,
      fallback |-> fallback ]
NoStrategy == Strategy("none", None, None, FALSE)

\* The locals of the execute_*_route methods, with the defaults they start from.
NoLoc ==
    [ sql_results |-> <<>>, sql_query |-> <<>>, sql_citations |-> <<>>,
      semantic_results |-> <<>>, semantic_citations |-> <<>>,
      raptor_results |-> <<>>, raptor_citations |-> <<>>,
      query_embedding |-> None, criteria |-> None,
      context |-> <<>>,   \* the context dict, once it is built for the synthesis
      errors |-> {} ]   \* the branches whose except clause ran (its message was printed)

Branches == {"sql", "semantic", "raptor"}
NoFuture == QueryReturn("none", <<>>, <<>>, <<>>, <<>>)
NoFutures == [b \in Branches |-> NoFuture]

\* Events on the progress queue; None is the sentinel.
Event(type, stage) == [type |-> type, stage |-> stage]
Sentinel == Event("None", None)

\* ---------------------------------------------------------------- initial state

Init ==
    /\ has_raptor \in BOOLEAN
    /\ pii_response = NoResponse
    /\ peer = None
    /\ message = {}
    /\ use_llm_routing = FALSE
    /\ mode = "none"
    /\ pc = "chat"
    /\ pii_result = NoPii
    /\ route_result = [route |-> None, reasoning |-> None, sql_hint |-> None,
                       raptor_topics |-> None]
    /\ strategy = NoStrategy
    /\ loc = NoLoc
    /\ futures = NoFutures
    /\ result = NoResult
    /\ calls = EmptyBag
    /\ inflight = {}
    /\ progress_queue = <<>>
    /\ stream = <<>>
    /\ genPc = "none"
    /\ http = "none"
    /\ question = <<>>
    /\ llm_reply = NoReply
    /\ completed = <<>>

config == <<has_raptor, pii_response, peer>>
router == <<question, llm_reply>>
executor == <<completed>>
request == <<message, use_llm_routing, mode>>
streaming == <<progress_queue, stream, genPc>>

\* ---------------------------------------------------------------- api_server.py: chat

\* chat(), code-rag mode: classify with quick_route, then stream (CHAIN) or answer inline.
chat ==
    /\ pc = "chat"
    /\ \E m \in Messages, llm \in BOOLEAN :
        /\ message' = m
        /\ use_llm_routing' = llm
        /\ IF quick_route(m) = "CHAIN"
           THEN mode' = "stream" /\ genPc' = "start" /\ pc' = "thread"
           ELSE mode' = "sync" /\ genPc' = genPc /\ pc' = "answer"
    /\ calls' = logged(calls, <<Call("quick_route", Query)>>)
    /\ UNCHANGED <<config, router, executor, pii_result, route_result, strategy, loc, futures, result,
                   inflight, progress_queue, stream, http>>

\* generate_chain_response: start the worker thread.
generate_start ==
    /\ genPc = "start"
    /\ genPc' = "get"
    /\ pc' = "answer"
    /\ UNCHANGED <<config, router, executor, request, pii_result, route_result, strategy, loc, futures,
                   result, calls, inflight, progress_queue, stream, http>>

\* progress_queue.get returned an event: the sentinel ends the loop, anything else is yielded.
generate_get ==
    /\ genPc = "get"
    /\ progress_queue # <<>>
    /\ progress_queue' = Tail(progress_queue)
    /\ IF Head(progress_queue) = Sentinel
       THEN genPc' = "join" /\ stream' = stream
       ELSE genPc' = "get" /\ stream' = Append(stream, Head(progress_queue))
    /\ UNCHANGED <<config, router, executor, request, pc, pii_result, route_result, strategy, loc, futures,
                   result, calls, inflight, http>>

\* Mutant: progress_queue.get() without a timeout waits on an empty queue.
generate_timeout_waiting ==
    /\ genPc = "get"
    /\ progress_queue = <<>>
    /\ UNCHANGED vars

\* progress_queue.get timed out on an empty queue: yield the timeout error and stop.
generate_timeout ==
    /\ genPc = "get"
    /\ progress_queue = <<>>
    /\ stream' = Append(stream, Event("error", "Query timeout"))
    /\ genPc' = "join"
    /\ UNCHANGED <<config, router, executor, request, pc, pii_result, route_result, strategy, loc, futures,
                   result, calls, inflight, progress_queue, http>>

\* thread.join(timeout=5), then the generator ends: the response is closed.
generate_join ==
    /\ genPc = "join"
    /\ genPc' = "closed"
    /\ UNCHANGED <<config, router, executor, request, pc, pii_result, route_result, strategy, loc, futures,
                   result, calls, inflight, progress_queue, stream, http>>

\* run_retriever after answer(): the result event, or the error event of an exception.
run_retriever_put ==
    /\ mode = "stream"
    /\ pc \in {"returned", "raised"}
    /\ progress_queue' = Append(progress_queue,
            IF pc = "returned" THEN Event("result", result.route)
            ELSE Event("error", "exception"))
    /\ pc' = "finally"
    /\ UNCHANGED <<config, router, executor, request, pii_result, route_result, strategy, loc, futures,
                   result, calls, inflight, stream, genPc, http>>

\* run_retriever's finally: the sentinel.
run_retriever_finally ==
    /\ pc = "finally"
    /\ progress_queue' = Append(progress_queue, Sentinel)
    /\ pc' = "done"
    /\ UNCHANGED <<config, router, executor, request, pii_result, route_result, strategy, loc, futures,
                   result, calls, inflight, stream, genPc, http>>

\* chat() on a non-CHAIN quick route: the JSON response, or the 500 of its except clause.
chat_respond ==
    /\ mode = "sync"
    /\ pc \in {"returned", "raised"}
    /\ http' = IF pc = "returned" THEN "200" ELSE "500"
    /\ pc' = "done"
    /\ UNCHANGED <<config, router, executor, request, pii_result, route_result, strategy, loc, futures,
                   result, calls, inflight, streaming>>

\* ---------------------------------------------------------------- answer(): gate and routing

\* Mutant: the refusal is built without the pii_blocked flag.
BlockedResult_unflagged(warning) ==
    [NoResult EXCEPT !.status = "returned", !.answer = warning, !.route = "BLOCKED",
        !.reasoning = "Query contains personally identifiable information",
        !.pii_warning = warning]

BlockedResult(warning) ==
    [NoResult EXCEPT !.status = "returned", !.answer = warning, !.route = "BLOCKED",
        !.reasoning = "Query contains personally identifiable information",
        !.pii_blocked = TRUE, !.pii_warning = warning]

\* Step 0: the PII check.  api_server.py constructs UnifiedRetriever() with its default
\* enable_pii_filter=True, so self.pii_filter is set.
answer_check_pii ==
    /\ pc = "answer"
    /\ \E resp \in PiiResponses :
        /\ pii_result' = check(resp)
        /\ calls' = logged(calls, <<Call("pii_check", Query)>>)
        /\ pc' = "pii_checked"
    /\ UNCHANGED <<config, router, executor, request, route_result, strategy, loc, futures, result,
                   inflight, streaming, http>>

\* Mutant: the routing completion is requested before the refusal is returned.
answer_blocked_after_routing ==
    /\ pc = "pii_checked"
    /\ pii_result.has_pii
    /\ \E warning \in format_warning(pii_result.entities) :
            result' = BlockedResult(warning)
    /\ calls' = logged(calls, <<Call("llm_route", Query)>>)
    /\ pc' = "returned"
    /\ UNCHANGED <<config, router, executor, request, pii_result, route_result, strategy, loc, futures,
                   inflight, streaming, http>>

\* has_pii: return the BLOCKED result.
answer_blocked ==
    /\ pc = "pii_checked"
    /\ pii_result.has_pii
    /\ \E warning \in format_warning(pii_result.entities) :
            result' = BlockedResult(warning)
    /\ pc' = "returned"
    /\ UNCHANGED <<config, router, executor, request, pii_result, route_result, strategy, loc, futures,
                   calls, inflight, streaming, http>>

answer_not_blocked ==
    /\ pc = "pii_checked"
    /\ ~pii_result.has_pii
    /\ pc' = "route"
    /\ UNCHANGED <<config, router, executor, request, pii_result, route_result, strategy, loc, futures,
                   result, calls, inflight, streaming, http>>

\* Route the query: router.route (which raises on a failed call or a reply that is not
\* JSON) or quick_route.  pii_result is not read after this point and is dropped.
answer_route ==
    /\ pc = "route"
    /\ IF use_llm_routing
       THEN \E reply \in LlmRouteReplies :
                /\ llm_reply' = reply
                /\ calls' = logged(calls, <<Call("llm_route", Query)>>)
                /\ IF reply.kind = "json"
                   THEN route_result' = route(reply) /\ pc' = "dispatch" /\ result' = result
                   ELSE route_result' = route_result /\ pc' = "raised"
                        /\ result' = Raised("llm_route")
       ELSE /\ route_result' = [route |-> quick_route(message),
                                reasoning |-> "Heuristic routing",
                                sql_hint |-> None, raptor_topics |-> None]
            /\ calls' = logged(calls, <<Call("quick_route", Query)>>)
            /\ pc' = "dispatch"
            /\ result' = result
            /\ llm_reply' = llm_reply
    /\ pii_result' = NoPii
    /\ UNCHANGED <<config, question, executor, request, strategy, loc, futures, inflight, streaming, http>>

\* Mutant: a label without a branch of its own is handed on as it is.
dispatch_any_label(r) == r

\* The if/elif chain of answer(): the strategy a route label runs.
dispatch(r) ==
    IF r \in {"SQL", "SEMANTIC", "RAPTOR", "SEMANTIC_RAPTOR", "CHAIN"} THEN r ELSE "HYBRID"

\* The arguments answer() passes to the strategy.
dispatched(rr) ==
    LET name == dispatch(rr.route)
    IN  Strategy(name,
                 IF name \in {"SQL", "HYBRID"} THEN rr.sql_hint ELSE None,
                 IF name \in {"RAPTOR", "SEMANTIC_RAPTOR", "CHAIN", "HYBRID"}
                    THEN rr.raptor_topics ELSE None,
                 FALSE)

first_pc(name) ==
    CASE name = "SQL" -> "sql_route"
      [] name = "SEMANTIC" -> "semantic_route"
      [] name = "RAPTOR" -> "raptor_route"
      [] name = "CHAIN" -> "chain"
      [] OTHER -> "fan_embed"

answer_dispatch ==
    /\ pc = "dispatch"
    /\ strategy' = dispatched(route_result)
    /\ pc' = first_pc(dispatch(route_result.route))
    /\ llm_reply' = NoReply
    /\ UNCHANGED <<config, question, executor, request, pii_result, route_result, loc, futures, result,
                   calls, inflight, streaming, http>>

\* answer()'s last statement: the routing decision's reasoning replaces the strategy's.
answer_return ==
    /\ pc = "strategy_returned"
    /\ result' = [result EXCEPT !.status = "returned", !.reasoning = route_result.reasoning]
    /\ pc' = "returned"
    /\ completed' = <<>>
    /\ UNCHANGED <<config, router, request, pii_result, route_result, strategy, loc, futures,
                   calls, inflight, streaming, http>>

\* ---------------------------------------------------------------- execution strategies

\* The citations of source b as a strategy merges them: sliced to its cap for the source.
capped(name, l, b) ==
    CASE name = "HYBRID" /\ b = "sql" -> Take(l.sql_citations, HybridSqlCap)
      [] name = "HYBRID" /\ b = "semantic" -> Take(l.semantic_citations, HybridSemanticCap)
      [] name = "HYBRID" /\ b = "raptor" -> Take(l.raptor_citations, HybridRaptorCap)
      [] name = "SEMANTIC_RAPTOR" /\ b = "semantic" ->
            Take(l.semantic_citations, SemRaptorSemanticCap)
      [] name = "SEMANTIC_RAPTOR" /\ b = "raptor" -> Take(l.raptor_citations, SemRaptorRaptorCap)
      [] name = "CHAIN" /\ b = "sql" -> Take(l.sql_citations, ChainSqlCap)
      [] name = "CHAIN" /\ b = "semantic" -> Take(l.semantic_citations, ChainSemanticCap)
      [] b = "sql" -> l.sql_citations
      [] b = "semantic" -> l.semantic_citations
      [] OTHER -> l.raptor_citations

\* The capped citations of the branches of sequence order, one branch after the other.
RECURSIVE merged(_, _, _)
merged(name, l, order) ==
    IF order = <<>> THEN <<>>
    ELSE capped(name, l, Head(order)) \o merged(name, l, Tail(order))

\* Mutant: the fan-out strategies merge the citations in the order the branches completed.
all_citations_by_arrival(name, l) ==
    CASE name = "SQL" -> merged(name, l, <<"sql">>)
      [] name = "SEMANTIC" -> merged(name, l, <<"semantic">>)
      [] name = "RAPTOR" -> merged(name, l, <<"raptor">>)
      [] name = "CHAIN" -> merged(name, l, <<"raptor", "sql", "semantic">>)
      [] OTHER -> merged(name, l, completed)

\* all_citations: the citation list each strategy puts in its result.
all_citations(name, l) ==
    CASE name = "SQL" -> merged(name, l, <<"sql">>)
      [] name = "SEMANTIC" -> merged(name, l, <<"semantic">>)
      [] name = "RAPTOR" -> merged(name, l, <<"raptor">>)
      [] name = "SEMANTIC_RAPTOR" -> merged(name, l, <<"semantic", "raptor">>)
      [] name = "CHAIN" -> merged(name, l, <<"raptor", "sql", "semantic">>)
      [] OTHER -> merged(name, l, <<"sql", "semantic", "raptor">>)

\* The RetrievalResult each execute_*_route constructs from its locals.
strategy_result(name, l) ==
    CASE name = "SQL" ->
            [NoResult EXCEPT !.answer = "answer", !.route = "SQL",
                !.reasoning = "Query requires precise structured data",
                !.citations = all_citations("SQL", l), !.sql_results = l.sql_results,
                !.sql_query = l.sql_query, !.populated = {"sql_results", "sql_query"}]
      [] name = "SEMANTIC" ->
            [NoResult EXCEPT !.answer = "answer", !.route = "SEMANTIC",
                !.reasoning = "Query requires semantic understanding/similarity",
                !.citations = all_citations("SEMANTIC", l),
                !.semantic_results = l.semantic_results,
                !.populated = {"semantic_results"}]
      [] name = "RAPTOR" ->
            [NoResult EXCEPT !.answer = "answer", !.route = "RAPTOR",
                !.reasoning = "Query is about macro/economic context",
                !.citations = all_citations("RAPTOR", l), !.raptor_results = l.raptor_results,
                !.populated = {"raptor_results"}]
      [] name = "SEMANTIC_RAPTOR" ->
            [NoResult EXCEPT !.answer = "answer", !.route = "SEMANTIC_RAPTOR",
                !.reasoning = "Query combines fund style matching with macro economic context",
                !.citations = all_citations("SEMANTIC_RAPTOR", l),
                !.semantic_results = l.semantic_results,
                !.raptor_results = l.raptor_results,
                !.populated = {"semantic_results", "raptor_results"}]
      [] name = "CHAIN" ->
            [NoResult EXCEPT !.answer = "answer", !.route = "CHAIN",
                !.reasoning = "Macro context drives fund selection",
                !.citations = all_citations("CHAIN", l),
                !.sql_results = l.sql_results, !.semantic_results = l.semantic_results,
                !.raptor_results = l.raptor_results, !.sql_query = l.sql_query,
                !.populated = {"sql_results", "semantic_results", "raptor_results",
                               "sql_query"}]
      [] OTHER ->
            [NoResult EXCEPT !.answer = "answer", !.route = "HYBRID",
                !.reasoning = "Query requires both fund data and macro context",
                !.citations = all_citations("HYBRID", l),
                !.sql_results = l.sql_results, !.semantic_results = l.semantic_results,
                !.raptor_results = l.raptor_results, !.sql_query = l.sql_query,
                !.populated = {"sql_results", "semantic_results", "raptor_results",
                               "sql_query"}]

\* The locals after a query_* call returned ret for source b.
collected(l, b, ret) ==
    CASE b = "sql" -> [l EXCEPT !.sql_results = ret.results, !.sql_query = ret.sql_query,
                                !.sql_citations = ret.citations]
      [] b = "semantic" -> [l EXCEPT !.semantic_results = ret.results,
                                     !.semantic_citations = ret.citations]
      [] OTHER -> [l EXCEPT !.raptor_results = ret.results, !.raptor_citations = ret.citations]

\* The call that raised, when a query_* call raised: the last one it made.
raiser(ret) == ret.calls[Len(ret.calls)].op

\* execute_sql_route, up to the synthesis.
execute_sql_route ==
    /\ pc = "sql_route"
    /\ \E gen \in GenOutcomes, db \in DbOutcomes :
        LET ret == query_sql(Query, strategy.sql_hint, gen, db)
        IN  /\ calls' = logged(calls, ret.calls)
            /\ IF ret.status = "raise"
               THEN pc' = "raised" /\ result' = Raised(raiser(ret)) /\ loc' = loc
               ELSE pc' = "synthesize" /\ result' = result /\ loc' = collected(loc, "sql", ret)
    /\ UNCHANGED <<config, router, executor, request, pii_result, route_result, strategy, futures,
                   inflight, streaming, http>>

\* execute_semantic_route, up to the synthesis.
execute_semantic_route ==
    /\ pc = "semantic_route"
    /\ \E emb \in EmbedOutcomes, srch \in SearchOutcomes :
        LET ret == query_semantic(Query, SemanticTop, None, emb, srch)
        IN  /\ calls' = logged(calls, ret.calls)
            /\ IF ret.status = "raise"
               THEN pc' = "raised" /\ result' = Raised(raiser(ret)) /\ loc' = loc
               ELSE pc' = "synthesize" /\ result' = result
                    /\ loc' = collected(loc, "semantic", ret)
    /\ UNCHANGED <<config, router, executor, request, pii_result, route_result, strategy, futures,
                   inflight, streaming, http>>

\* execute_raptor_route, up to the synthesis.
execute_raptor_route ==
    /\ pc = "raptor_route"
    /\ \E emb \in EmbedOutcomes, srch \in SearchOutcomes :
        LET ret == query_raptor(has_raptor, Query, strategy.raptor_topics, RaptorTop, None, emb, srch)
        IN  /\ calls' = logged(calls, ret.calls)
            /\ loc' = collected(loc, "raptor", ret)
    /\ pc' = "synthesize"
    /\ UNCHANGED <<config, router, executor, request, pii_result, route_result, strategy, futures, result,
                   inflight, streaming, http>>

\* The context dict a strategy builds for _synthesize_answer from its locals.
context(name, l) ==
    CASE name = "SQL" -> [sql_results |-> l.sql_results]
      [] name = "SEMANTIC" -> [semantic_results |-> l.semantic_results]
      [] name = "RAPTOR" -> [raptor_results |-> l.raptor_results]
      [] name = "SEMANTIC_RAPTOR" ->
            [semantic_context |-> l.semantic_results, macro_context |-> l.raptor_results]
      [] name = "CHAIN" ->
            [macro_context |-> l.raptor_results, derived_criteria |-> l.criteria,
             sql_results |-> Take(l.sql_results, 10),
             semantic_matches |-> l.semantic_results]
      [] OTHER ->
            [sql_results |-> Take(l.sql_results, 10),
             semantic_context |-> l.semantic_results, macro_context |-> l.raptor_results]

\* Mutant: every strategy asks for the synthesis with the HYBRID instruction.
synthesis_call_hybrid_instruction(name, query) == Call("synthesize", <<"HYBRID">> \o query)

\* The call _synthesize_answer(query, context, route) makes: the route selects the
\* instruction of the system prompt, the query is part of the user message.
synthesis_call(name, query) == Call("synthesize", <<name>> \o query)

\* _synthesize_answer and the return of the strategy (all strategies but CHAIN).
synthesize ==
    /\ pc = "synthesize"
    /\ calls' = logged(calls, <<synthesis_call(strategy.name, Query)>>)
    /\ loc' = [loc EXCEPT !.context = context(strategy.name, loc)]
    /\ \E o \in LlmOutcomes :
        IF o = "raise"
        THEN pc' = "raised" /\ result' = Raised("synthesize") /\ completed' = <<>>
        ELSE pc' = "strategy_returned" /\ result' = strategy_result(strategy.name, loc)
             /\ completed' = completed
    /\ UNCHANGED <<config, router, request, pii_result, route_result, strategy, futures,
                   inflight, streaming, http>>

\* ---- the fan-out strategies: execute_hybrid_route, execute_semantic_raptor_route

fan_branches(name) == IF name = "HYBRID" THEN {"sql", "semantic", "raptor"}
                      ELSE {"semantic", "raptor"}

\* The top each fan-out strategy submits its search branches with.
fan_top(name, b) ==
    IF name = "HYBRID"
    THEN (IF b = "semantic" THEN HybridSemanticTop ELSE HybridRaptorTop)
    ELSE (IF b = "semantic" THEN SemRaptorSemanticTop ELSE SemRaptorRaptorTop)

\* Mutant: the branches are submitted without the precomputed vector.
submitted_embedding_none(l) == None

\* The embedding the fan-out hands to its semantic and macro branches.
submitted_embedding(l) == l.query_embedding

\* Pre-compute the embedding once.
fan_embed ==
    /\ pc = "fan_embed"
    /\ calls' = logged(calls, <<Call("embed", Query)>>)
    /\ \E o \in EmbedOutcomes :
        IF o = "raise"
        THEN pc' = "raised" /\ result' = Raised("embed") /\ loc' = loc
        ELSE pc' = "fan_submit" /\ result' = result
             /\ loc' = [loc EXCEPT !.query_embedding = "vector"]
    /\ UNCHANGED <<config, router, executor, request, pii_result, route_result, strategy, futures,
                   inflight, streaming, http>>

\* executor.submit of every branch.
fan_submit ==
    /\ pc = "fan_submit"
    /\ futures' = [b \in Branches |->
                     IF b \in fan_branches(strategy.name)
                     THEN [NoFuture EXCEPT !.status = "running"] ELSE NoFuture]
    /\ pc' = IF strategy.name = "HYBRID" THEN "collect_sql" ELSE "collect_semantic"
    /\ UNCHANGED <<config, router, executor, request, pii_result, route_result, strategy, loc, result,
                   calls, inflight, streaming, http>>

\* A branch runs to its end in its pool thread: the future holds a value or an exception.
branch_sql ==
    /\ futures["sql"].status = "running"
    /\ \E gen \in GenOutcomes, db \in DbOutcomes :
        LET ret == query_sql(Query, strategy.sql_hint, gen, db)
        IN  /\ futures' = [futures EXCEPT !["sql"] = ret]
            /\ calls' = logged(calls, ret.calls)
    /\ completed' = Append(completed, "sql")
    /\ UNCHANGED <<config, router, request, pc, pii_result, route_result, strategy, loc, result,
                   inflight, streaming, http>>

branch_semantic ==
    /\ futures["semantic"].status = "running"
    /\ \E emb \in EmbedOutcomes, srch \in SearchOutcomes :
        LET ret == query_semantic(Query, fan_top(strategy.name, "semantic"), submitted_embedding(loc), emb, srch)
        IN  /\ futures' = [futures EXCEPT !["semantic"] = ret]
            /\ calls' = logged(calls, ret.calls)
    /\ completed' = Append(completed, "semantic")
    /\ UNCHANGED <<config, router, request, pc, pii_result, route_result, strategy, loc, result,
                   inflight, streaming, http>>

branch_raptor ==
    /\ futures["raptor"].status = "running"
    /\ \E emb \in EmbedOutcomes, srch \in SearchOutcomes :
        LET ret == query_raptor(has_raptor, Query, strategy.raptor_topics,
                                fan_top(strategy.name, "raptor"),
                                submitted_embedding(loc), emb, srch)
        IN  /\ futures' = [futures EXCEPT !["raptor"] = ret]
            /\ calls' = logged(calls, ret.calls)
    /\ completed' = Append(completed, "raptor")
    /\ UNCHANGED <<config, router, request, pc, pii_result, route_result, strategy, loc, result,
                   inflight, streaming, http>>

collecting(p) ==
    CASE p = "collect_sql" -> "sql"
      [] p = "collect_semantic" -> "semantic"
      [] p = "collect_raptor" -> "raptor"
      [] OTHER -> None

after_collect(b) ==
    CASE b = "sql" -> "collect_semantic"
      [] b = "semantic" -> "collect_raptor"
      [] OTHER -> "fan_shutdown"

\* The locals after future.result(timeout=30) of branch b: the branch's value, or, when
\* it raised or the wait timed out, the defaults (the except clause only prints).
future_result(l, b, fut) ==
    IF fut.status = "ok" THEN collected(l, b, fut) ELSE [l EXCEPT !.errors = @ \cup {b}]

\* Mutant: future.result() outside any try, so a branch's exception leaves the route.
fan_collect_unguarded ==
    /\ collecting(pc) # None
    /\ futures[collecting(pc)].status \in {"ok", "raise"}
    /\ IF futures[collecting(pc)].status = "raise"
       THEN pc' = "raised" /\ loc' = loc
            /\ result' = Raised(raiser(futures[collecting(pc)]))
       ELSE pc' = after_collect(collecting(pc)) /\ result' = result
            /\ loc' = future_result(loc, collecting(pc), futures[collecting(pc)])
    /\ UNCHANGED <<config, router, executor, request, pii_result, route_result, strategy, futures,
                   calls, inflight, streaming, http>>

\* future.result(timeout=30) on a finished future.
fan_collect ==
    /\ collecting(pc) # None
    /\ futures[collecting(pc)].status \in {"ok", "raise"}
    /\ loc' = future_result(loc, collecting(pc), futures[collecting(pc)])
    /\ pc' = after_collect(collecting(pc))
    /\ UNCHANGED <<config, router, executor, request, pii_result, route_result, strategy, futures, result,
                   calls, inflight, streaming, http>>

\* future.result(timeout=30) on a future that is still running after 30 seconds.
fan_timeout ==
    /\ collecting(pc) # None
    /\ futures[collecting(pc)].status = "running"
    /\ loc' = future_result(loc, collecting(pc), futures[collecting(pc)])
    /\ pc' = after_collect(collecting(pc))
    /\ UNCHANGED <<config, router, executor, request, pii_result, route_result, strategy, futures, result,
                   calls, inflight, streaming, http>>

\* Leaving the with block: ThreadPoolExecutor.shutdown(wait=True) returns once every
\* branch has ended.
fan_shutdown ==
    /\ pc = "fan_shutdown"
    /\ \A b \in Branches : futures[b].status # "running"
    /\ pc' = "synthesize"
    /\ UNCHANGED <<config, router, executor, request, pii_result, route_result, strategy, loc, futures,
                   result, calls, inflight, streaming, http>>

\* ---- execute_chain_route

\* Mutant: the search stage reports no progress.
emit_progress_skipping_search(q, stage) ==
    IF mode = "stream" /\ stage # "search" THEN Append(q, Event("progress", stage)) ELSE q

\* Mutant: the callback puts every event twice.
emit_progress_twice(q, stage) ==
    IF mode = "stream"
    THEN Append(Append(q, Event("progress", stage)), Event("progress", stage)) ELSE q

\* emit_progress: the callback chat() passes puts a progress event on the queue; without
\* a callback nothing happens.
emit_progress(q, stage) ==
    IF mode = "stream" THEN Append(q, Event("progress", stage)) ELSE q

\* The strategy the CHAIN fallback runs: execute_hybrid_route(query).
chain_fallback == Strategy("HYBRID", None, None, TRUE)

\* The position after each stage of the chain has returned.
chain_next(stage) ==
    CASE stage = "raptor" -> "chain_criteria"
      [] stage = "criteria" -> "chain_search"
      [] stage = "sql" -> "chain_semantic"
      [] stage = "semantic" -> "chain_synthesize"
      [] OTHER -> "strategy_returned"

\* Mutant: the criteria completion is requested without waiting for it.
chain_wait_criteria_unawaited(stage) ==
    CASE stage = "raptor" -> "chain_raptor_wait"
      [] stage = "criteria" -> "chain_search"
      [] stage = "sql" -> "chain_sql_wait"
      [] stage = "semantic" -> "chain_semantic_wait"
      [] OTHER -> "chain_synthesize_wait"

\* The position after a stage's call was started: blocked in the call.
chain_wait(stage) ==
    CASE stage = "raptor" -> "chain_raptor_wait"
      [] stage = "criteria" -> "chain_criteria_wait"
      [] stage = "sql" -> "chain_sql_wait"
      [] stage = "semantic" -> "chain_semantic_wait"
      [] OTHER -> "chain_synthesize_wait"

\* Mutant: stage 3 is queried with the question as it was asked.
fund_query_unaugmented(l) == Query

\* fund_query: the question augmented with the derived criteria.
fund_query(l) == Query \o <<"Based on analysis", l.criteria>>

\* Step 1: progress event, then the macro search is called.
chain_raptor_call ==
    /\ pc = "chain"
    /\ progress_queue' = emit_progress(progress_queue, "raptor")
    /\ inflight' = inflight \cup {"query_raptor"}
    /\ pc' = chain_wait("raptor")
    /\ UNCHANGED <<config, router, executor, request, pii_result, route_result, strategy, loc, futures,
                   result, calls, stream, genPc, http>>

\* The macro search returned: no documents falls back to HYBRID.
chain_raptor_return ==
    /\ pc = "chain_raptor_wait"
    /\ \E emb \in EmbedOutcomes, srch \in SearchOutcomes :
        LET ret == query_raptor(has_raptor, Query, strategy.raptor_topics, ChainRaptorTop,
                                None, emb, srch)
        IN  /\ calls' = logged(calls, ret.calls)
            /\ IF ret.results = <<>>
               THEN strategy' = chain_fallback /\ pc' = "fan_embed" /\ loc' = loc
               ELSE strategy' = strategy /\ pc' = chain_next("raptor")
                    /\ loc' = collected(loc, "raptor", ret)
    /\ inflight' = inflight \ {"query_raptor"}
    /\ UNCHANGED <<config, router, executor, request, pii_result, route_result, futures, result,
                   streaming, http>>

\* Step 2: progress event, then the criteria completion is requested.
chain_criteria_call ==
    /\ pc = "chain_criteria"
    /\ progress_queue' = emit_progress(progress_queue, "criteria")
    /\ calls' = logged(calls, <<Call("llm_criteria", Query \o <<"macro_context">>)>>)
    /\ inflight' = inflight \cup {"llm_criteria"}
    /\ pc' = chain_wait("criteria")
    /\ UNCHANGED <<config, router, executor, request, pii_result, route_result, strategy, loc, futures,
                   result, stream, genPc, http>>

chain_criteria_return ==
    /\ pc = "chain_criteria_wait"
    /\ \E o \in LlmOutcomes :
        IF o = "raise"
        THEN pc' = "raised" /\ result' = Raised("llm_criteria") /\ loc' = loc
        ELSE pc' = chain_next("criteria") /\ result' = result
             /\ loc' = [loc EXCEPT !.criteria = "criteria"]
    /\ inflight' = inflight \ {"llm_criteria"}
    /\ UNCHANGED <<config, router, executor, request, pii_result, route_result, strategy, futures, calls,
                   streaming, http>>

\* Step 3: progress event, then query_sql and query_semantic on the augmented question.
chain_sql_call ==
    /\ pc = "chain_search"
    /\ progress_queue' = emit_progress(progress_queue, "search")
    /\ inflight' = inflight \cup {"query_sql"}
    /\ pc' = chain_wait("sql")
    /\ UNCHANGED <<config, router, executor, request, pii_result, route_result, strategy, loc, futures,
                   result, calls, stream, genPc, http>>

chain_sql_return ==
    /\ pc = "chain_sql_wait"
    /\ \E gen \in GenOutcomes, db \in DbOutcomes :
        LET ret == query_sql(fund_query(loc), None, gen, db)
        IN  /\ calls' = logged(calls, ret.calls)
            /\ IF ret.status = "raise"
               THEN pc' = "raised" /\ result' = Raised(raiser(ret)) /\ loc' = loc
               ELSE pc' = chain_next("sql") /\ result' = result
                    /\ loc' = collected(loc, "sql", ret)
    /\ inflight' = inflight \ {"query_sql"}
    /\ UNCHANGED <<config, router, executor, request, pii_result, route_result, strategy, futures,
                   streaming, http>>

chain_semantic_call ==
    /\ pc = "chain_semantic"
    /\ inflight' = inflight \cup {"query_semantic"}
    /\ pc' = chain_wait("semantic")
    /\ UNCHANGED <<config, router, executor, request, pii_result, route_result, strategy, loc, futures,
                   result, calls, streaming, http>>

chain_semantic_return ==
    /\ pc = "chain_semantic_wait"
    /\ \E emb \in EmbedOutcomes, srch \in SearchOutcomes :
        LET ret == query_semantic(fund_query(loc), ChainSemanticTop, None, emb, srch)
        IN  /\ calls' = logged(calls, ret.calls)
            /\ IF ret.status = "raise"
               THEN pc' = "raised" /\ result' = Raised(raiser(ret)) /\ loc' = loc
               ELSE pc' = chain_next("semantic") /\ result' = result
                    /\ loc' = collected(loc, "semantic", ret)
    /\ inflight' = inflight \ {"query_semantic"}
    /\ UNCHANGED <<config, router, executor, request, pii_result, route_result, strategy, futures,
                   streaming, http>>

\* Step 4: progress event, then the synthesis.
chain_synthesize_call ==
    /\ pc = "chain_synthesize"
    /\ progress_queue' = emit_progress(progress_queue, "synthesize")
    /\ calls' = logged(calls, <<synthesis_call("CHAIN", Query)>>)
    /\ loc' = [loc EXCEPT !.context = context("CHAIN", loc)]
    /\ inflight' = inflight \cup {"synthesize"}
    /\ pc' = chain_wait("synthesize")
    /\ UNCHANGED <<config, router, executor, request, pii_result, route_result, strategy, futures,
                   result, stream, genPc, http>>

chain_synthesize_return ==
    /\ pc = "chain_synthesize_wait"
    /\ \E o \in LlmOutcomes :
        IF o = "raise"
        THEN pc' = "raised" /\ result' = Raised("synthesize")
        ELSE pc' = chain_next("synthesize") /\ result' = strategy_result("CHAIN", loc)
    /\ inflight' = inflight \ {"synthesize"}
    /\ UNCHANGED <<config, router, executor, request, pii_result, route_result, strategy, loc, futures,
                   calls, streaming, http>>

\* ---------------------------------------------------------------- specification

Next ==
    \/ chat
    \/ generate_start
    \/ generate_get
    \/ generate_timeout
    \/ generate_join
    \/ run_retriever_put
    \/ run_retriever_finally
    \/ chat_respond
    \/ answer_check_pii
    \/ answer_blocked
    \/ answer_not_blocked
    \/ answer_route
    \/ answer_dispatch
    \/ answer_return
    \/ execute_sql_route
    \/ execute_semantic_route
    \/ execute_raptor_route
    \/ synthesize
    \/ fan_embed
    \/ fan_submit
    \/ branch_sql
    \/ branch_semantic
    \/ branch_raptor
    \/ fan_collect
    \/ fan_timeout
    \/ fan_shutdown
    \/ chain_raptor_call
    \/ chain_raptor_return
    \/ chain_criteria_call
    \/ chain_criteria_return
    \/ chain_sql_call
    \/ chain_sql_return
    \/ chain_semantic_call
    \/ chain_semantic_return
    \/ chain_synthesize_call
    \/ chain_synthesize_return

Spec == Init /\ [][Next]_vars

\* ---------------------------------------------------------------- query_router.py: heuristic routing alone

\* route_query(query, use_llm=False) on each of the questions.
RouterInit ==
    /\ has_raptor = FALSE
    /\ pii_response = NoResponse
    /\ peer = None
    /\ message = {}
    /\ use_llm_routing = FALSE
    /\ mode = "none"
    /\ pc = "route_query"
    /\ pii_result = NoPii
    /\ route_result = [route |-> None, reasoning |-> None, sql_hint |-> None,
                       raptor_topics |-> None]
    /\ strategy = NoStrategy
    /\ loc = NoLoc
    /\ futures = NoFutures
    /\ result = NoResult
    /\ calls = EmptyBag
    /\ inflight = {}
    /\ progress_queue = <<>>
    /\ stream = <<>>
    /\ genPc = "none"
    /\ http = "none"
    /\ question \in Questions
    /\ llm_reply = NoReply
    /\ completed = <<>>

\* quick_route scans the lowercased text for the keywords and takes its first rule.
route_query_quick ==
    /\ pc = "route_query"
    /\ message' = keyword_classes(lower(question))
    /\ route_result' = [route |-> quick_route_of(question),
                        reasoning |-> "Heuristic routing",
                        sql_hint |-> None, raptor_topics |-> None]
    /\ pc' = "routed"
    /\ UNCHANGED <<config, question, llm_reply, executor, use_llm_routing, mode, pii_result,
                   strategy, loc, futures, result, calls, inflight, streaming, http>>

RouterNext == route_query_quick

RouterSpec == RouterInit /\ [][RouterNext]_vars

\* ---------------------------------------------------------------- unified_retriever.py: the query methods alone

\* The responses of a search index to a direct query: the scores of the returned
\* documents in the order of the response, in any order.
Responses == UNION { [1..n -> 1..MaxScore] : n \in 0..MaxResponse }
SearchResponses ==
    {[fail |-> TRUE, scores |-> <<>>]} \cup {[fail |-> FALSE, scores |-> s] : s \in Responses}

\* A retriever on which only the query_* methods are called.
QueryInit ==
    /\ has_raptor \in BOOLEAN
    /\ pii_response = NoResponse
    /\ peer = None
    /\ message = {}
    /\ use_llm_routing = FALSE
    /\ mode = "none"
    /\ pc = "query"
    /\ pii_result = NoPii
    /\ route_result = [route |-> None, reasoning |-> None, sql_hint |-> None,
                       raptor_topics |-> None]
    /\ strategy = NoStrategy
    /\ loc = NoLoc
    /\ futures = NoFutures
    /\ result = NoResult
    /\ calls = EmptyBag
    /\ inflight = {}
    /\ progress_queue = <<>>
    /\ stream = <<>>
    /\ genPc = "none"
    /\ http = "none"
    /\ question = <<>>
    /\ llm_reply = NoReply
    /\ completed = <<>>

\* query_sql(query): what it returns is kept in futures["sql"].
call_query_sql ==
    /\ pc = "query"
    /\ \E gen \in GenOutcomes, db \in DbOutcomes :
        LET ret == query_sql(Query, None, gen, db)
        IN  /\ futures' = [futures EXCEPT !["sql"] = ret]
            /\ calls' = logged(calls, ret.calls)
    /\ pc' = "queried"
    /\ UNCHANGED <<config, router, executor, request, pii_result, route_result, strategy, loc,
                   result, inflight, streaming, http>>

\* query_semantic(query, top) with the tops its callers use.
call_query_semantic ==
    /\ pc = "query"
    /\ \E top \in {SemanticTop, HybridSemanticTop}, emb \in EmbedOutcomes,
          srch \in SearchResponses :
        LET ret == query_semantic(Query, top, None, emb, srch)
        IN  /\ futures' = [futures EXCEPT !["semantic"] = ret]
            /\ calls' = logged(calls, ret.calls)
    /\ pc' = "queried"
    /\ UNCHANGED <<config, router, executor, request, pii_result, route_result, strategy, loc,
                   result, inflight, streaming, http>>

\* query_raptor(query, None, top) with the tops its callers use.
call_query_raptor ==
    /\ pc = "query"
    /\ \E top \in {RaptorTop, HybridRaptorTop}, emb \in EmbedOutcomes,
          srch \in SearchResponses :
        LET ret == query_raptor(has_raptor, Query, None, top, None, emb, srch)
        IN  /\ futures' = [futures EXCEPT !["raptor"] = ret]
            /\ calls' = logged(calls, ret.calls)
    /\ pc' = "queried"
    /\ UNCHANGED <<config, router, executor, request, pii_result, route_result, strategy, loc,
                   result, inflight, streaming, http>>

QueryNext ==
    \/ call_query_sql
    \/ call_query_semantic
    \/ call_query_raptor

QuerySpec == QueryInit /\ [][QueryNext]_vars

\* ---------------------------------------------------------------- pii_filter.py: check alone

\* The texts check is followed on: every text of up to MaxText characters, blanks, tabs
\* and a letter.
Whitespace == {" ", "\t"}
Texts == UNION { [1..n -> Whitespace \cup {"a"}] : n \in 0..MaxText }

\* str.strip(): the text without its leading and trailing whitespace.
RECURSIVE lstrip(_)
lstrip(text) == IF text # <<>> /\ Head(text) \in Whitespace THEN lstrip(Tail(text)) ELSE text
RECURSIVE rstrip(_)
rstrip(text) ==
    IF text # <<>> /\ text[Len(text)] \in Whitespace
    THEN rstrip(SubSeq(text, 1, Len(text) - 1)) ELSE text
strip(text) == rstrip(lstrip(text))

\* check(text) on each of the texts.
PiiInit ==
    /\ has_raptor = FALSE
    /\ pii_response = NoResponse
    /\ peer = None
    /\ message = {}
    /\ use_llm_routing = FALSE
    /\ mode = "none"
    /\ pc = "check"
    /\ pii_result = NoPii
    /\ route_result = [route |-> None, reasoning |-> None, sql_hint |-> None,
                       raptor_topics |-> None]
    /\ strategy = NoStrategy
    /\ loc = NoLoc
    /\ futures = NoFutures
    /\ result = NoResult
    /\ calls = EmptyBag
    /\ inflight = {}
    /\ progress_queue = <<>>
    /\ stream = <<>>
    /\ genPc = "none"
    /\ http = "none"
    /\ question \in Texts
    /\ llm_reply = NoReply
    /\ completed = <<>>

\* if not text or not text.strip(): the result without PII, and no request.
check_blank ==
    /\ pc = "check"
    /\ (question = <<>> \/ strip(question) = <<>>)
    /\ pii_result' = NoPii
    /\ pc' = "checked"
    /\ UNCHANGED <<config, router, executor, request, route_result, strategy, loc, futures,
                   result, calls, inflight, streaming, http>>

\* requests.post with the text: the service answers, or the request fails.
check_post ==
    /\ pc = "check"
    /\ ~(question = <<>> \/ strip(question) = <<>>)
    /\ \E resp \in PiiResponses : pii_response' = resp
    /\ calls' = logged(calls, <<Call("pii_post", question)>>)
    /\ pc' = "check_posted"
    /\ UNCHANGED <<has_raptor, peer, router, executor, request, pii_result, route_result,
                   strategy, loc, futures, result, inflight, streaming, http>>

\* The rest of check: the outcome of the POST is turned into the PiiCheckResult.
check_parse ==
    /\ pc = "check_posted"
    /\ pii_result' = check(pii_response)
    /\ pc' = "checked"
    /\ UNCHANGED <<config, router, executor, request, route_result, strategy, loc, futures,
                   result, calls, inflight, streaming, http>>

PiiNext ==
    \/ check_blank
    \/ check_post
    \/ check_parse

PiiSpec == PiiInit /\ [][PiiNext]_vars

\* ---------------------------------------------------------------- api_server.py: two requests at once

\* Everything a request in flight owns: the locals of chat(), of its generator and worker,
\* of answer() and of the strategy it runs, and what it has called so far.  The module
\* level retriever is shared; of its attributes the model has has_raptor.
ThisRequest ==
    [ message |-> message, use_llm_routing |-> use_llm_routing, mode |-> mode, pc |-> pc,
      pii_result |-> pii_result, route_result |-> route_result, strategy |-> strategy,
      loc |-> loc, futures |-> futures, result |-> result, calls |-> calls,
      inflight |-> inflight, progress_queue |-> progress_queue, stream |-> stream,
      genPc |-> genPc, http |-> http, llm_reply |-> llm_reply, completed |-> completed ]

\* A request that has just arrived at chat().
NewRequest ==
    [ message |-> {}, use_llm_routing |-> FALSE, mode |-> "none", pc |-> "chat",
      pii_result |-> NoPii,
      route_result |-> [route |-> None, reasoning |-> None, sql_hint |-> None,
                        raptor_topics |-> None],
      strategy |-> NoStrategy, loc |-> NoLoc, futures |-> NoFutures, result |-> NoResult,
      calls |-> EmptyBag, inflight |-> {}, progress_queue |-> <<>>, stream |-> <<>>,
      genPc |-> "none", http |-> "none", llm_reply |-> NoReply, completed |-> <<>> ]

\* Two requests arrive; the retriever was constructed once.
PairInit ==
    /\ has_raptor = TRUE
    /\ pii_response = NoResponse
    /\ peer = NewRequest
    /\ message = {}
    /\ use_llm_routing = FALSE
    /\ mode = "none"
    /\ pc = "chat"
    /\ pii_result = NoPii
    /\ route_result = [route |-> None, reasoning |-> None, sql_hint |-> None,
                       raptor_topics |-> None]
    /\ strategy = NoStrategy
    /\ loc = NoLoc
    /\ futures = NoFutures
    /\ result = NoResult
    /\ calls = EmptyBag
    /\ inflight = {}
    /\ progress_queue = <<>>
    /\ stream = <<>>
    /\ genPc = "none"
    /\ http = "none"
    /\ question = <<>>
    /\ llm_reply = NoReply
    /\ completed = <<>>

\* Mutant: the progress queue is a module-level object, one for all requests.
switch_sharing_queue ==
    /\ peer' = ThisRequest
    /\ message' = peer.message
    /\ use_llm_routing' = peer.use_llm_routing
    /\ mode' = peer.mode
    /\ pc' = peer.pc
    /\ pii_result' = peer.pii_result
    /\ route_result' = peer.route_result
    /\ strategy' = peer.strategy
    /\ loc' = peer.loc
    /\ futures' = peer.futures
    /\ result' = peer.result
    /\ calls' = peer.calls
    /\ inflight' = peer.inflight
    /\ stream' = peer.stream
    /\ genPc' = peer.genPc
    /\ http' = peer.http
    /\ llm_reply' = peer.llm_reply
    /\ completed' = peer.completed
    /\ UNCHANGED <<has_raptor, pii_response, question, progress_queue>>

\* The threads of the other request are scheduled: its state comes to the front, the
\* state of this one is set aside.  Only the retriever is common to both.
switch ==
    /\ peer' = ThisRequest
    /\ message' = peer.message
    /\ use_llm_routing' = peer.use_llm_routing
    /\ mode' = peer.mode
    /\ pc' = peer.pc
    /\ pii_result' = peer.pii_result
    /\ route_result' = peer.route_result
    /\ strategy' = peer.strategy
    /\ loc' = peer.loc
    /\ futures' = peer.futures
    /\ result' = peer.result
    /\ calls' = peer.calls
    /\ inflight' = peer.inflight
    /\ progress_queue' = peer.progress_queue
    /\ stream' = peer.stream
    /\ genPc' = peer.genPc
    /\ http' = peer.http
    /\ llm_reply' = peer.llm_reply
    /\ completed' = peer.completed
    /\ UNCHANGED <<has_raptor, pii_response, question>>

\* The requests followed in pairs: any of the messages, heuristic routing, a PII service
\* that reports nothing or one e-mail address, collaborators that answer (no exception,
\* a macro stage that finds documents, fan-out branches that find rows and documents) and
\* a generator that is served within its timeout.
PairBound ==
    /\ ~use_llm_routing
    /\ pii_result.error = None
    /\ pii_result.entities \subseteq {[category |-> "Email", confidenceScore |-> 95]}
    /\ pc # "raised"
    /\ loc.errors = {}
    /\ \A b \in Branches : futures[b].status # "raise"
    /\ \A b \in Branches : futures[b].status = "ok" => futures[b].results # <<>>
    /\ ~strategy.fallback
    /\ \A i \in 1..Len(stream) : stream[i] # [type |-> "error", stage |-> "Query timeout"]

\* A step of the request in front, or the other request is scheduled.  The two timeouts
\* (generate_timeout, fan_timeout) are outside PairBound.
PairNext ==
    \/ (chat /\ PairBound')
    \/ (generate_start /\ PairBound')
    \/ (generate_get /\ PairBound')
    \/ (generate_join /\ PairBound')
    \/ (run_retriever_put /\ PairBound')
    \/ (run_retriever_finally /\ PairBound')
    \/ (chat_respond /\ PairBound')
    \/ (answer_check_pii /\ PairBound')
    \/ (answer_blocked /\ PairBound')
    \/ (answer_not_blocked /\ PairBound')
    \/ (answer_route /\ PairBound')
    \/ (answer_dispatch /\ PairBound')
    \/ (answer_return /\ PairBound')
    \/ (execute_sql_route /\ PairBound')
    \/ (execute_semantic_route /\ PairBound')
    \/ (execute_raptor_route /\ PairBound')
    \/ (synthesize /\ PairBound')
    \/ (fan_embed /\ PairBound')
    \/ (fan_submit /\ PairBound')
    \/ (branch_sql /\ PairBound')
    \/ (branch_semantic /\ PairBound')
    \/ (branch_raptor /\ PairBound')
    \/ (fan_collect /\ PairBound')
    \/ (fan_shutdown /\ PairBound')
    \/ (chain_raptor_call /\ PairBound')
    \/ (chain_raptor_return /\ PairBound')
    \/ (chain_criteria_call /\ PairBound')
    \/ (chain_criteria_return /\ PairBound')
    \/ (chain_sql_call /\ PairBound')
    \/ (chain_sql_return /\ PairBound')
    \/ (chain_semantic_call /\ PairBound')
    \/ (chain_semantic_return /\ PairBound')
    \/ (chain_synthesize_call /\ PairBound')
    \/ (chain_synthesize_return /\ PairBound')
    \/ switch

PairSpec == PairInit /\ [][PairNext]_vars

\* ---------------------------------------------------------------- properties

\* Number of logged calls of operation op.
OpCount(op) ==
    LET cs == {c \in BagToSet(calls) : c.op = op}
    IN  BagCardinality([c \in cs |-> calls[c]])

\* The citations of a source type in a citation list.
OfType(cits, t) == SelectSeq(cits, LAMBDA c : c.source_type = t)

IsTerminal(e) == e.type \in {"result", "error"}
Timeout == Event("error", "Query timeout")

\* Every event run_retriever and the progress callback have put on the queue so far:
\* those the generator took (all it yielded but its own timeout error) and those waiting.
PutEvents ==
    SelectSeq(SelectSeq(stream, LAMBDA e : e # Timeout) \o progress_queue,
              LAMBDA e : e # Sentinel)
ProgressPut == SelectSeq(PutEvents, LAMBDA e : e.type = "progress")
TerminalPut == SelectSeq(PutEvents, IsTerminal)
ChainStages == << Event("progress", "raptor"), Event("progress", "criteria"),
                  Event("progress", "search"), Event("progress", "synthesize") >>

\* C1: whenever the PII check reports has_pii, answer() returns a result with
\* pii_blocked = true, route BLOCKED, no citations and no sql_query; and every returned
\* result with pii_blocked = true has no citations and no sql_query.
C1_BlockedResult ==
    /\ (pii_result.has_pii /\ pc # "pii_checked") =>
          /\ result.status = "returned"
          /\ result.pii_blocked
          /\ result.route = "BLOCKED"
          /\ result.citations = <<>>
          /\ result.sql_query = <<>>
    /\ (result.status = "returned" /\ result.pii_blocked) =>
          (result.citations = <<>> /\ result.sql_query = <<>>)

C1_Witness ==
    /\ pc = "returned"
    /\ pii_result.has_pii
    /\ result.pii_blocked
    /\ result.route = "BLOCKED"

\* C2: when the PII check flags the query, no collaborator is called between the check
\* and the return (nor after it): the only calls of the request are chat()'s quick_route
\* and the PII check itself, and no fan-out branch or chain call is in flight.
C2_NoCallsWhenBlocked ==
    pii_result.has_pii =>
        /\ calls = SetToBag({Call("quick_route", Query), Call("pii_check", Query)})
        /\ inflight = {}
        /\ \A b \in Branches : futures[b].status = "none"

C2_Witness ==
    /\ pc = "done"
    /\ result.pii_blocked
    /\ OpCount("pii_check") = 1

\* C3: a failed PII check (timeout, connection error, other exception, non-OK status,
\* unexpected payload kind) reports has_pii = false with no entities, and answer() then
\* goes on to routing: it is never the blocked return.
C3_FailOpen ==
    pii_result.error # None =>
        /\ ~pii_result.has_pii
        /\ pii_result.entities = {}
        /\ pc \in {"pii_checked", "route"}
        /\ result.status = "none"

C3_Witness ==
    /\ pc = "route"
    /\ pii_result.error = "PII check timed out"
    /\ ~pii_result.has_pii

\* The source type, result field and HYBRID citation cap of a fan-out branch.
source_type(b) == CASE b = "sql" -> "SQL" [] b = "semantic" -> "SEMANTIC" [] OTHER -> "RAPTOR"
results_of(res, b) ==
    CASE b = "sql" -> res.sql_results
      [] b = "semantic" -> res.semantic_results
      [] OTHER -> res.raptor_results
hybrid_cap(b) ==
    CASE b = "sql" -> HybridSqlCap [] b = "semantic" -> HybridSemanticCap [] OTHER -> HybridRaptorCap

HybridReturned == strategy.name = "HYBRID" /\ pc = "strategy_returned"

\* C4: in execute_hybrid_route, whichever branches raise or time out, the route returns
\* a result: a failed branch contributes no results and no citations, a branch that
\* succeeded contributes its results and its (capped) citations, synthesis was called,
\* and no exception of a branch ever leaves the route.
C4_HybridPartialFailure ==
    /\ HybridReturned =>
          /\ result.route = "HYBRID"
          /\ \A b \in Branches :
                IF b \in loc.errors
                THEN /\ results_of(result, b) = <<>>
                     /\ OfType(result.citations, source_type(b)) = <<>>
                ELSE /\ futures[b].status = "ok"
                     /\ results_of(result, b) = futures[b].results
                     /\ OfType(result.citations, source_type(b))
                          = Take(futures[b].citations, hybrid_cap(b))
          /\ OpCount("synthesize") = 1
    /\ (strategy.name = "HYBRID" /\ result.status = "raised") =>
          result.raised_by \in {"embed", "synthesize"}
    /\ (strategy.name = "HYBRID" /\ loc.errors # {}) => pc # "raised" \/ result.raised_by = "synthesize"

C4_Witness ==
    /\ HybridReturned
    /\ futures["semantic"].status = "raise"
    /\ loc.errors = {"semantic"}
    /\ OfType(result.citations, "SQL") # <<>>
    /\ OfType(result.citations, "RAPTOR") # <<>>

\* C5 (as claimed): a streamed CHAIN execution whose macro stage returned documents has
\* put exactly the four progress events raptor, criteria, search, synthesize, in this
\* order, and then exactly one terminal event.
C5_FourEventsAlways ==
    (mode = "stream" /\ pc = "done" /\ strategy.name = "CHAIN" /\ loc.raptor_results # <<>>) =>
        /\ ProgressPut = ChainStages
        /\ Len(TerminalPut) = 1
        /\ PutEvents = ProgressPut \o TerminalPut

\* C5 (amended): the progress events of a streamed CHAIN execution are put in the fixed
\* order raptor, criteria, search, synthesize, each before the call of its stage starts,
\* and are followed by exactly one terminal event; all four precede a result event, and
\* when a stage raises, the events of the stages reached so far precede an error event.
C5_ChainProgress ==
    (mode = "stream" /\ strategy.name = "CHAIN") =>
        /\ \E n \in 0..4 : ProgressPut = SubSeq(ChainStages, 1, n)
        /\ ("query_raptor" \in inflight) => Len(ProgressPut) >= 1
        /\ ("llm_criteria" \in inflight) => Len(ProgressPut) >= 2
        /\ ("query_sql" \in inflight \/ "query_semantic" \in inflight) => Len(ProgressPut) >= 3
        /\ ("synthesize" \in inflight) => Len(ProgressPut) = 4
        /\ (pc \notin {"finally", "done"}) => TerminalPut = <<>>
        /\ (pc \in {"finally", "done"}) =>
              /\ Len(TerminalPut) = 1
              /\ PutEvents = ProgressPut \o TerminalPut
              /\ (result.status = "returned") =>
                    (ProgressPut = ChainStages /\ TerminalPut = <<Event("result", "CHAIN")>>)
              /\ (result.status = "raised") => TerminalPut = <<Event("error", "exception")>>

C5_Witness ==
    /\ mode = "stream"
    /\ pc = "done"
    /\ strategy.name = "CHAIN"
    /\ PutEvents = ChainStages \o <<Event("result", "CHAIN")>>

\* C6 (as claimed): under every interleaving of worker, queue and generator, the
\* yielded stream holds at most one terminal event, nothing follows it, and a closed
\* stream holds exactly one.
C6_OneTerminalEvent ==
    LET terminals == SelectSeq(stream, IsTerminal)
    IN  /\ Len(terminals) <= 1
        /\ (terminals # <<>>) => IsTerminal(stream[Len(stream)])
        /\ (genPc = "closed") => Len(terminals) = 1

\* C7: the CHAIN stages are strictly sequential: at most one call is in flight; the
\* criteria completion is requested only after the macro search returned its documents;
\* the stage-3 queries run only after the criteria are there, on the question augmented
\* with them; synthesis starts only after both stage-3 queries returned.
C7_ChainSequential ==
    /\ Cardinality(inflight) <= 1
    /\ ("llm_criteria" \in inflight) =>
          (loc.raptor_results # <<>> /\ OpCount("raptor_search") = 1)
    /\ ("query_sql" \in inflight \/ "query_semantic" \in inflight) =>
          (loc.criteria # None /\ OpCount("llm_criteria") = 1)
    /\ ("query_semantic" \in inflight) =>
          CopiesIn(Call("sql_generate", fund_query(loc)), calls) = 1
    /\ ("synthesize" \in inflight) =>
          /\ CopiesIn(Call("sql_generate", fund_query(loc)), calls) = 1
          /\ CopiesIn(Call("semantic_search", fund_query(loc)), calls) = 1
          /\ loc.sql_query # <<>>

C7_Witness ==
    /\ strategy.name = "CHAIN"
    /\ inflight = {"synthesize"}
    /\ loc.semantic_results # <<>>
    /\ loc.sql_results # <<>>

\* C8 (as claimed): the CHAIN fallback runs HYBRID exactly as a direct dispatch of the
\* same request to HYBRID would: with the sql_hint and raptor_topics of the routing
\* decision, and with a result of the HYBRID shape.
C8_FallbackAsDirectHybrid ==
    strategy.fallback =>
        /\ [strategy EXCEPT !.fallback = FALSE]
              = dispatched([route_result EXCEPT !.route = "HYBRID"])
        /\ (pc = "strategy_returned") =>
              /\ result.route = "HYBRID"
              /\ result.populated = strategy_result("HYBRID", NoLoc).populated

\* The (route, reasoning) pairs answer() returns for a request dispatched to HYBRID.
DirectHybridRecords ==
    { <<"HYBRID", g>> : g \in {"Heuristic routing", "Default routing", "llm reasoning"} }

\* C9 (as claimed): after a CHAIN execution fell back to HYBRID, the route and reasoning
\* of the result answer() returns show it: they are not those of a direct HYBRID run.
C9_FallbackRecorded ==
    (strategy.fallback /\ result.status = "returned") =>
        <<result.route, result.reasoning>> \notin DirectHybridRecords

C11_SqlAndHybridCaps ==
    /\ result.route = "SQL" =>
          /\ Len(result.citations) <= 10
          /\ OfType(result.citations, "SQL") = result.citations
    /\ result.route = "HYBRID" =>
          /\ Len(OfType(result.citations, "SQL")) <= 5
          /\ Len(OfType(result.citations, "SEMANTIC")) <= 3
          /\ Len(OfType(result.citations, "RAPTOR")) <= 2
          /\ Len(result.citations) <= 10

C11_Witness ==
    /\ result.status = "returned"
    /\ result.route = "SQL"
    /\ Len(result.sql_results) > 10
    /\ Len(result.citations) = 10

C13_ChainCaps ==
    result.route = "CHAIN" =>
        /\ Len(OfType(result.citations, "SQL")) <= 5
        /\ Len(OfType(result.citations, "SEMANTIC")) <= 3
        /\ Len(OfType(result.citations, "RAPTOR")) <= 2

\* The citations a fan-out branch gave to a HYBRID result: those of its future, sliced,
\* when future.result() returned them; none when it raised or timed out.
hybrid_part(b) ==
    IF futures[b].status = "ok" /\ b \notin loc.errors
    THEN Take(futures[b].citations, hybrid_cap(b)) ELSE <<>>

\* C14: the merged citation list has the order of its strategy (HYBRID: SQL, semantic,
\* macro; SEMANTIC_RAPTOR: semantic, macro; CHAIN: macro, SQL, semantic), whatever the
\* order in which the branches of a concurrent strategy completed.
C14_CitationOrder ==
    LET of(t) == OfType(result.citations, t)
    IN  /\ result.route = "HYBRID" =>
              result.citations = of("SQL") \o of("SEMANTIC") \o of("RAPTOR")
        /\ result.route = "SEMANTIC_RAPTOR" =>
              result.citations = of("SEMANTIC") \o of("RAPTOR")
        /\ result.route = "CHAIN" =>
              result.citations = of("RAPTOR") \o of("SQL") \o of("SEMANTIC")
        /\ HybridReturned =>
              result.citations
                 = hybrid_part("sql") \o hybrid_part("semantic") \o hybrid_part("raptor")

C14_Witness ==
    /\ HybridReturned
    /\ completed = <<"raptor", "semantic", "sql">>
    /\ OfType(result.citations, "SQL") # <<>>
    /\ OfType(result.citations, "SEMANTIC") # <<>>
    /\ OfType(result.citations, "RAPTOR") # <<>>
    /\ result.citations[1].source_type = "SQL"

\* The backend call of a source, and the sources each route queries.
backend_op(b) ==
    CASE b = "sql" -> "db_execute" [] b = "semantic" -> "semantic_search" [] OTHER -> "raptor_search"
route_sources(r) ==
    CASE r = "SQL" -> {"sql"}
      [] r = "SEMANTIC" -> {"semantic"}
      [] r = "RAPTOR" -> {"raptor"}
      [] r = "SEMANTIC_RAPTOR" -> {"semantic", "raptor"}
      [] r \in {"HYBRID", "CHAIN"} -> {"sql", "semantic", "raptor"}
      [] OTHER -> {}

\* C15: every citation of a result is of a source that the executed route queries, whose
\* backend was called in this request and returned the rows or documents the result
\* holds; a backend that failed, timed out, returned only an error row or is not part of
\* the route has no citation.
C15_CitationsFromQueriedBackends ==
    \A b \in Branches :
        LET cits == OfType(result.citations, source_type(b))
            rows == results_of(result, b)
        IN  cits # <<>> =>
                /\ b \in route_sources(result.route)
                /\ OpCount(backend_op(b)) >= 1
                /\ b \notin loc.errors
                /\ Len(cits) <= Len(rows)
                /\ \A i \in 1..Len(cits) : cits[i].identifier = rows[i].id
                /\ (b = "sql") => \A i \in 1..Len(rows) : ~rows[i].error
                /\ (b = "raptor") => has_raptor

C15_Witness ==
    /\ result.status = "returned"
    /\ result.route = "HYBRID"
    /\ result.sql_results = <<ErrorRow>>
    /\ "semantic" \in loc.errors
    /\ result.citations # <<>>
    /\ OfType(result.citations, "RAPTOR") = result.citations

\* Whether a keyword of set K occurs in the lowercased question.
present(K) == \E kw \in K : occurs_in(kw, lower(question))

\* The rules of the heuristic classifier in their order: a condition and its outcome.
RoutingRules ==
    << <<present(raptor_keywords) /\ present(fund_keywords) /\ present(cond_keywords), "CHAIN">>,
       <<present(raptor_keywords) /\ present(fund_keywords), "HYBRID">>,
       <<present(raptor_keywords), "RAPTOR">>,
       <<present(sql_keywords), "SQL">>,
       <<present(semantic_keywords), "SEMANTIC">>,
       <<present(generic_keywords), "SQL">>,
       <<TRUE, "HYBRID">> >>

\* C16: quick_route gives the outcome of the first rule, in the fixed order, whose
\* keywords occur in the question; no later rule overrides it.
C16_FirstMatchingRule ==
    pc = "routed" =>
        \E i \in 1..Len(RoutingRules) :
            /\ RoutingRules[i][1]
            /\ \A j \in 1..(i - 1) : ~RoutingRules[j][1]
            /\ route_result.route = RoutingRules[i][2]

C16_Witness ==
    /\ pc = "routed"
    /\ message = {"raptor", "sql", "semantic", "generic"}
    /\ route_result.route = "RAPTOR"

\* C17 (as claimed): quick_route gives every documented example question, and every
\* question of the router's self-test table, the route documented for it.
C17_DocumentedRoutes ==
    pc = "routed" =>
        /\ \A i \in 1..Len(SpecFixtures) :
              question = SpecFixtures[i][1] => route_result.route = SpecFixtures[i][2]
        /\ \A i \in 1..Len(test_queries) :
              question = test_queries[i][1] => route_result.route = test_queries[i][2]

\* C18 (as claimed): a routing reply that does not parse raises nothing: the route is the
\* heuristic one and the request goes on to a result.
C18_UnparseableReplyFallsBack ==
    llm_reply.kind = "unparseable" =>
        /\ pc # "raised"
        /\ result.status # "raised"
        /\ route_result.route = quick_route(message)

\* C19: route() gives a parsed reply its defaults: without a route the route is HYBRID,
\* without a reasoning the reasoning is 'Default routing', and a field the reply holds
\* is returned as it is.
C19_RouteDefaults ==
    (pc = "dispatch" /\ llm_reply.kind = "json") =>
        /\ (llm_reply.route = None) => route_result.route = "HYBRID"
        /\ (llm_reply.reasoning = None) => route_result.reasoning = "Default routing"
        /\ \A f \in {"route", "reasoning", "sql_hint", "raptor_topics"} :
              (llm_reply[f] # None) => route_result[f] = llm_reply[f]
        /\ route_result.sql_hint = llm_reply.sql_hint
        /\ route_result.raptor_topics = llm_reply.raptor_topics

C19_Witness ==
    /\ pc = "dispatch"
    /\ llm_reply.kind = "json"
    /\ llm_reply.route = None
    /\ llm_reply.reasoning = None
    /\ llm_reply.sql_hint = "hint"
    /\ route_result.route = "HYBRID"

\* C20 (as claimed): a request routed to RAPTOR while the macro backend is not configured
\* is executed by the HYBRID strategy: the SQL and semantic backends are queried.
C20_MacroDegradesToHybrid ==
    (dispatch(route_result.route) = "RAPTOR" /\ ~has_raptor /\ result.status = "returned") =>
        /\ result.route = "HYBRID"
        /\ OpCount("db_execute") >= 1
        /\ OpCount("semantic_search") >= 1

\* C21 (as claimed): a semantic index search that raises is absorbed as an empty semantic
\* result in every strategy, the SEMANTIC route and stage 3 of CHAIN included: its
\* exception never leaves answer().
C21_SemanticSearchAbsorbed ==
    /\ result.status = "raised" => result.raised_by # "semantic_search"
    /\ (OpCount("semantic_search") >= 1 /\ strategy.name \in {"SEMANTIC", "CHAIN"}) =>
          (pc = "raised" => result.raised_by = "synthesize")

\* C22 (as claimed): in HYBRID a failed embedding request fails the semantic and macro
\* branches only: the exception does not leave the route, and the SQL branch still runs.
C22_HybridEmbeddingFailure ==
    (strategy.name = "HYBRID" /\ result.status = "raised" /\ ~strategy.fallback) =>
        /\ result.raised_by # "embed"
        /\ OpCount("sql_generate") >= 1

\* C23 (as claimed): once the fan-out has collected (or given up on) every branch, the
\* strategy goes on to synthesis without waiting for a timed-out branch to finish:
\* leaving the executor block is never held back by a branch that is still running.
C23_TimedOutBranchNotAwaited ==
    (pc = "fan_shutdown") => ENABLED fan_shutdown

\* Whether the generator has yielded its timeout error.
TimedOut == \E i \in 1..Len(stream) : stream[i] = Timeout

\* C24 (as claimed): once the generator has yielded the timeout error, the background
\* retrieval is aborted: the worker starts no further call and puts no further event on
\* the queue.
C24_WorkerAbortedOnTimeout ==
    [][TimedOut => (/\ calls' = calls
                    /\ inflight' \subseteq inflight
                    /\ progress_queue' = progress_queue)]_vars

\* C25 (as claimed): chat() answers with a progress-event stream exactly when the
\* strategy answer() runs is CHAIN (a CHAIN execution that fell back to HYBRID counted
\* as CHAIN).
C25_StreamIffChainExecuted ==
    (strategy.name # "none") =>
        ((mode = "stream") <=> (strategy.name = "CHAIN" \/ strategy.fallback))

\* C26 (as claimed): no classifier, heuristic or model-assisted, runs before the PII
\* check of its request has completed, and a blocked message is never classified.
C26_GateBeforeClassifier ==
    /\ (OpCount("quick_route") + OpCount("llm_route") >= 1) => OpCount("pii_check") = 1
    /\ result.pii_blocked => (OpCount("quick_route") = 0 /\ OpCount("llm_route") = 0)

\* C27: query_sql never raises for a failed execution: it returns the single error row,
\* the SQL text and no citations, in a direct call as in a fan-out branch, and the
\* calling strategy goes on to synthesis.
C27_SqlErrorRow ==
    /\ result.status = "raised" => result.raised_by # "db_execute"
    /\ futures["sql"].status = "raise" => raiser(futures["sql"]) = "sql_generate"
    /\ (strategy.name = "SQL" /\ OpCount("db_execute") >= 1) =>
          /\ pc \notin {"sql_route"}
          /\ result.status = "raised" => result.raised_by = "synthesize"
    /\ \A r \in {loc.sql_results, futures["sql"].results, result.sql_results} :
          (\E i \in 1..Len(r) : r[i].error) => r = <<ErrorRow>>
    /\ (loc.sql_results = <<ErrorRow>>) => (loc.sql_citations = <<>> /\ loc.sql_query # <<>>)
    /\ (futures["sql"].results = <<ErrorRow>>) =>
          /\ futures["sql"].status = "ok"
          /\ futures["sql"].citations = <<>>
          /\ futures["sql"].sql_query # <<>>
    /\ (result.sql_results = <<ErrorRow>>) =>
          (OfType(result.citations, "SQL") = <<>> /\ result.sql_query # <<>>)

C27_Witness ==
    /\ strategy.name = "SQL"
    /\ result.status = "returned"
    /\ result.sql_results = <<ErrorRow>>
    /\ result.citations = <<>>
    /\ OpCount("db_execute") = 1
    /\ OpCount("synthesize") = 1

\* C28: query_raptor is never fatal: without a macro index it returns nothing and calls
\* nothing, and when its embedding request or its search raises it returns empty
\* results and citations; in no strategy does its exception leave the call.
C28_MacroNeverFatal ==
    /\ result.status = "raised" => result.raised_by # "raptor_search"
    /\ futures["raptor"].status # "raise"
    /\ (strategy.name = "RAPTOR" /\ result.status = "raised") =>
          result.raised_by = "synthesize"
    /\ (strategy.name = "CHAIN" /\ result.status = "raised" /\ result.raised_by = "embed") =>
          loc.criteria # None
    /\ ~has_raptor =>
          /\ OpCount("raptor_search") = 0
          /\ loc.raptor_results = <<>> /\ loc.raptor_citations = <<>>
          /\ futures["raptor"].results = <<>> /\ futures["raptor"].calls = <<>>
          /\ strategy.name = "RAPTOR" => OpCount("embed") = 0

C28_Witness ==
    /\ strategy.name = "RAPTOR"
    /\ has_raptor
    /\ result.status = "returned"
    /\ OpCount("embed") = 1
    /\ OpCount("raptor_search") = 0
    /\ result.raptor_results = <<>>
    /\ result.citations = <<>>

\* The labels of the entities the check flagged.
flagged_labels == { category_names(e.category) : e \in pii_result.entities }

\* The sentence of the claim for a list of labels: 'X information' for one, 'X and Y
\* information' for two, 'X, Y, and Z information' for three or more.
claimed_warning(l) ==
    IF Len(l) <= 2
    THEN "Your message contains " \o join(" and ", l)
            \o " information which cannot be processed for security reasons."
    ELSE "Your message contains " \o join(", ", SubSeq(l, 1, Len(l) - 1))
            \o ", and " \o l[Len(l)]
            \o " information which cannot be processed for security reasons."

\* C29 (as claimed): the warning of a blocked request names each distinct label of the
\* flagged categories once, joined as 'X information' for one label and as
\* 'X, Y, and Z information' for three or more.
C29_WarningSentence ==
    (result.pii_blocked /\ result.status = "returned") =>
        \E l \in listings(flagged_labels) : result.pii_warning = claimed_warning(l)

\* Whether the scores of a citation list never increase along the list.
NonIncreasing(cits) == \A i \in 1..(Len(cits) - 1) : cits[i].score >= cits[i + 1].score

\* C30 (as claimed): whatever the order in which the index returns its documents, the
\* semantic citations and the macro citations are in non-increasing score order; the SQL
\* citations are in the order of the rows.
C30_CitationScoreOrder ==
    /\ NonIncreasing(futures["semantic"].citations)
    /\ NonIncreasing(futures["raptor"].citations)
    /\ NonIncreasing(OfType(result.citations, "SEMANTIC"))
    /\ NonIncreasing(OfType(result.citations, "RAPTOR"))
    /\ \A i \in 1..Len(futures["sql"].citations) :
          futures["sql"].citations[i].identifier = futures["sql"].results[i].id

\* The arguments of a CHAIN execution that did not fall back, but for the macro stage:
\* stage 3 asks both backends with the question followed by the derived criteria, and
\* the synthesis is given the question as it was asked, the CHAIN instruction and a
\* context of the macro documents, the criteria and the stage-3 results.
ChainStageArguments ==
    /\ \A c \in BagToSet(calls) :
          c.op \in {"sql_generate", "semantic_search"} =>
              c.arg = Query \o <<"Based on analysis", loc.criteria>>
    /\ \A c \in BagToSet(calls) : c.op = "llm_criteria" => SubSeq(c.arg, 1, Len(Query)) = Query
    /\ OpCount("synthesize") >= 1 =>
          /\ \A c \in BagToSet(calls) : c.op = "synthesize" => c.arg = <<"CHAIN">> \o Query
          /\ loc.context.macro_context = loc.raptor_results
          /\ loc.context.macro_context # <<>>
          /\ loc.context.derived_criteria = loc.criteria
          /\ loc.context.derived_criteria # None
          /\ loc.context.sql_results = Take(loc.sql_results, 10)
          /\ loc.context.semantic_matches = loc.semantic_results

\* C32 (as claimed): in a CHAIN execution that did not fall back, the macro stage is
\* queried with the original question, both stage-3 queries receive the question
\* augmented with the derived criteria, and the synthesis receives the original question
\* with the macro context, the criteria and the stage-3 results.
C32_AsClaimed ==
    (strategy.name = "CHAIN") =>
        /\ \A c \in BagToSet(calls) : c.op = "raptor_search" => c.arg = Query
        /\ ChainStageArguments

\* C32 (amended): as claimed, but the text the macro stage searches with is the original
\* question followed by the routing decision's raptor_topics when it carries any, and
\* the original question alone otherwise.
C32_ChainArguments ==
    (strategy.name = "CHAIN") =>
        /\ \A c \in BagToSet(calls) :
              c.op = "raptor_search" =>
                  c.arg = IF strategy.raptor_topics # None
                          THEN Query \o <<strategy.raptor_topics>> ELSE Query
        /\ ChainStageArguments

C32_Witness ==
    /\ strategy.name = "CHAIN"
    /\ result.status = "returned"
    /\ strategy.raptor_topics # None
    /\ OpCount("raptor_search") = 1
    /\ OpCount("synthesize") = 1
    /\ loc.sql_results # <<>>
    /\ loc.semantic_results # <<>>

\* C33: answer() dispatches on the route label of the routing decision: SQL, SEMANTIC,
\* RAPTOR, SEMANTIC_RAPTOR and CHAIN each run their own strategy, any other label or a
\* missing one runs HYBRID; the route of a returned result is the label of the strategy
\* that produced it (HYBRID after a CHAIN fallback), or BLOCKED, never another label.
C33_DispatchOnLabel ==
    LET label == route_result.route
        own == {"SQL", "SEMANTIC", "RAPTOR", "SEMANTIC_RAPTOR", "CHAIN"}
    IN  /\ (strategy # NoStrategy /\ ~strategy.fallback) =>
              strategy.name = IF label \in own THEN label ELSE "HYBRID"
        /\ (strategy # NoStrategy /\ strategy.fallback) =>
              (label = "CHAIN" /\ strategy.name = "HYBRID")
        /\ (pc = "sql_route") => label = "SQL"
        /\ (pc = "semantic_route") => label = "SEMANTIC"
        /\ (pc = "raptor_route") => label = "RAPTOR"
        /\ (pc = "chain") => label = "CHAIN"
        /\ (result.status = "returned") =>
              /\ result.route \in {"BLOCKED"} \cup own \cup {"HYBRID"}
              /\ result.pii_blocked => (result.route = "BLOCKED" /\ strategy = NoStrategy)
              /\ ~result.pii_blocked => result.route = strategy.name

C33_Witness ==
    /\ result.status = "returned"
    /\ route_result.route \notin RouteLabels
    /\ result.route = "HYBRID"
    /\ ~strategy.fallback

\* At most one synthesis call is made, and a request that returned a result without
\* being blocked has made exactly one, with the instruction of the result's route.
SynthesisOnce ==
    /\ OpCount("synthesize") <= 1
    /\ (result.status = "returned" /\ ~result.pii_blocked) =>
          /\ OpCount("synthesize") = 1
          /\ \A c \in BagToSet(calls) :
                c.op = "synthesize" => (Len(c.arg) >= 1 /\ Head(c.arg) = result.route)

\* C34: every request that returns a result without being blocked has called the
\* synthesis exactly once, with the instruction of the strategy that produced the
\* result (HYBRID after a CHAIN fallback), and no collaborator is called after it.
C34_SynthesisOnceAndLast ==
    [][ SynthesisOnce' /\ (OpCount("synthesize") >= 1 => calls' = calls) ]_vars

C34_Witness ==
    /\ result.status = "returned"
    /\ strategy.fallback
    /\ result.route = "HYBRID"
    /\ OpCount("synthesize") = 1
    /\ OpCount("raptor_search") = 2

\* C36: a streamed CHAIN request that falls back to HYBRID puts exactly one progress
\* event, the one of the macro stage, before its terminal event; the criteria, search
\* and synthesize events are never put, the HYBRID strategy puts none of its own, and a
\* fallback that returns ends the events with the result event of route HYBRID.
C36_FallbackProgress ==
    (mode = "stream" /\ strategy.fallback) =>
        /\ ProgressPut = <<Event("progress", "raptor")>>
        /\ \A i \in 1..Len(stream) :
              stream[i].type = "progress" => (i = 1 /\ stream[i].stage = "raptor")
        /\ Head(PutEvents) = Event("progress", "raptor")
        /\ (pc \in {"finally", "done"} /\ result.status = "returned") =>
              PutEvents = <<Event("progress", "raptor"), Event("result", "HYBRID")>>

C36_Witness ==
    /\ mode = "stream"
    /\ strategy.fallback
    /\ pc = "done"
    /\ genPc = "closed"
    /\ stream = <<Event("progress", "raptor"), Event("result", "HYBRID")>>

\* A step of generate_chain_response.
GeneratorStep == generate_start \/ generate_get \/ generate_timeout \/ generate_join

\* How far the generator is: its position first, the events it has yielded second.
GeneratorProgress ==
    LET at == CASE genPc = "start" -> 1 [] genPc = "get" -> 2 [] genPc = "join" -> 3
                [] genPc = "closed" -> 4 [] OTHER -> 0
    IN  10 * at + Len(stream)

\* Wherever the worker stands (and so also if it stays there forever), a generator that
\* has not closed the response can take a step; it yields at most the four progress
\* events, the worker's terminal event and its own timeout error; the closed response
\* ends with a terminal event.
StreamCloses ==
    /\ (genPc \in {"start", "get", "join"}) => ENABLED <<GeneratorStep>>_vars
    /\ Len(stream) <= 6
    /\ (genPc = "closed") => (stream # <<>> /\ IsTerminal(stream[Len(stream)]))
    /\ (genPc = "join") =>
          \/ (stream # <<>> /\ stream[Len(stream)] = Timeout)
          \/ (pc = "done" /\ stream # <<>> /\ IsTerminal(stream[Len(stream)]))

\* C37: the streaming response always terminates: the generator is never blocked, each
\* of its steps brings it closer to the end (it leaves the loop on the sentinel or on a
\* queue timeout), and the response it closes ends with the terminal event, whether the
\* worker returns, raises or hangs.
C37_StreamTerminates ==
    /\ []StreamCloses
    /\ [][ (genPc' # genPc \/ stream' # stream) =>
              (GeneratorProgress' > GeneratorProgress /\ GeneratorProgress' <= 46) ]_vars

C37_Witness ==
    /\ genPc = "closed"
    /\ pc \notin {"finally", "done"}
    /\ stream[Len(stream)] = Timeout
    /\ Len(stream) >= 3

\* C35: PiiFilter.check reports has_pii exactly when the service returned at least one
\* entity with a confidence score at or above the threshold and a category of the
\* banking list; entities below the threshold or outside the list are not kept and do
\* not block; an empty or all-whitespace text is not blocked and no request is made.
C35_CheckFilter ==
    (pc = "checked") =>
        LET blank == \A i \in 1..Len(question) : question[i] \in {" ", "\t"}
            blocking == { e \in pii_response.entities :
                            /\ e.confidenceScore >= 80
                            /\ e.category \in BANKING_PII_CATEGORIES }
        IN  /\ blank => (~pii_result.has_pii /\ pii_result.entities = {}
                         /\ calls = EmptyBag /\ pii_response = NoResponse)
            /\ ~blank =>
                  /\ OpCount("pii_post") = 1
                  /\ pii_result.has_pii <=> (pii_response.kind = "ok" /\ blocking # {})
                  /\ (pii_response.kind = "ok") => pii_result.entities = blocking

C35_Witness ==
    /\ pc = "checked"
    /\ ~pii_result.has_pii
    /\ question = <<" ", "a">>
    /\ \E e \in pii_response.entities :
          e.category = "Organization" /\ e.confidenceScore = 95
    /\ \E e \in pii_response.entities :
          e.category = "Email" /\ e.confidenceScore = 79

\* What the request in front holds is its own: a request that has not started holds
\* nothing; results, citations and the SQL text are there only after this request called
\* their backend; the route is the one of its own message and the result that of its own
\* strategy, with the citations of its own locals; only a streamed request has events,
\* each of its stages once and in order, and the result event carries its own route.
OwnResponse ==
    /\ (mode = "none") => ThisRequest = NewRequest
    /\ \A b \in Branches :
          (\/ results_of(result, b) # <<>>
           \/ OfType(result.citations, source_type(b)) # <<>>
           \/ futures[b].status = "ok" /\ futures[b].results # <<>>) =>
              OpCount(backend_op(b)) >= 1
    /\ (loc.sql_results # <<>> \/ loc.sql_query # <<>> \/ result.sql_query # <<>>) =>
          OpCount("sql_generate") >= 1
    /\ (loc.semantic_results # <<>>) => OpCount("semantic_search") >= 1
    /\ (loc.raptor_results # <<>>) => OpCount("raptor_search") >= 1
    /\ (loc.criteria # None) => OpCount("llm_criteria") = 1
    /\ (DOMAIN loc.context # {}) => OpCount("synthesize") = 1
    /\ (route_result.route # None) => route_result.route = quick_route(message)
    /\ (strategy # NoStrategy) => strategy.name = quick_route(message)
    /\ (result.status = "returned" /\ result.pii_blocked) =>
          (pii_result.has_pii /\ OpCount("pii_check") = 1 /\ result.citations = <<>>)
    /\ (result.status = "returned" /\ ~result.pii_blocked) =>
          /\ result.route = quick_route(message)
          /\ OpCount("synthesize") = 1
          /\ \A i \in 1..Len(result.citations) :
                \E b \in Branches :
                    /\ result.citations[i].source_type = source_type(b)
                    /\ \E k \in 1..Len(results_of(result, b)) :
                          result.citations[i].identifier = results_of(result, b)[k].id
          /\ result.sql_results = loc.sql_results
          /\ result.sql_query \in {<<>>, loc.sql_query}
    /\ (mode # "stream") => (progress_queue = <<>> /\ stream = <<>> /\ genPc = "none")
    /\ (http # "none") => (mode = "sync" /\ http = "200" /\ result.status = "returned")
    /\ (mode = "stream") =>
          /\ quick_route(message) = "CHAIN"
          /\ \E n \in 0..4 : ProgressPut = SubSeq(ChainStages, 1, n)
          /\ Len(ProgressPut) <= 1 + OpCount("raptor_search") + OpCount("llm_criteria")
                                   + OpCount("sql_generate")
          /\ Len(TerminalPut) <= 1
          /\ (TerminalPut # <<>>) =>
                (result.status = "returned" /\ TerminalPut = <<Event("result", result.route)>>
                 /\ PutEvents = ProgressPut \o TerminalPut)

====
